---------------------------- MODULE Spec2Model ----------------------------
(***************************************************************************)
(* hysetter: the tiled, cached, parallel network-fetch engine of           *)
(* src/hysetter/clients.py.                                                *)
(*                                                                         *)
(*   SpecDL    streaming_download / _download: a batch of download tasks   *)
(*             run by a joblib thread pool against remote resources and    *)
(*             the local disk, called repeatedly on the same task list.    *)
(*   SpecTile  bbox_decompose: one call on a bounding box drawn from a     *)
(*             small grid, with the geodesic edge lengths as inputs.       *)
(*   SpecKey   create_request_key: the keys of two requests that differ in *)
(*             at most two of their arguments.                             *)
(*   SpecWms   wms_getmap: one call on a list of layers and a bounding box.*)
(*   SpecCli   the command line of src/src/hysetter: runs of cli on one     *)
(*             configuration file, with and without --overwrite.           *)
(*   SpecRace  streaming_download on a batch whose destinations may         *)
(*             coincide, with _download taken one file operation at a time.*)
(*   SpecFlw   _get_flowlines of src/src/hysetter/aoi.py: the loop over the *)
(*             geometries of the area of interest.                         *)
(*   SpecFl    FileList of src/src/hysetter/hysetter.py: appends, extends   *)
(*             and index and slice assignments on one list.                *)
(*   SpecAoi   the validation of the aoi section of a configuration and    *)
(*             one call of get_aoi of src/src/hysetter/aoi.py on it.       *)
(*   SpecFetch the loop over the geometries of get_forcing, get_nid,       *)
(*             get_rasters and get_streamflow of src/src/hysetter.         *)
(*                                                                         *)
(* Coordinates are exact rationals (numerator over the denominator the     *)
(* code divides by); the rounding of floating point is not modelled.       *)
(* The remote resources do not change while the calls are made.  A caller  *)
(* calls streaming_download again only once the threads of the previous    *)
(* call have ended.                                                        *)
(***************************************************************************)
EXTENDS Integers, Sequences, FiniteSets, TLC

VARIABLES
    ntasks,     \* len(url_list): the number of download tasks of the batch
    n_jobs,     \* the n_jobs argument of streaming_download
    urlsIsStr,  \* isinstance(urls, str): a single URL given as a string
    args,       \* the method, kwds and fnames arguments of streaming_download
    files,      \* files[t]: the destination path of task t
    remote,     \* remote[t]: what the server answers to the request of task t
    odd,        \* the task whose environment may misbehave (0: none)
    disk,       \* disk[p]: the content of the file at path p, or NoFile
    dirs,       \* the paths whose parent directory exists
    call,       \* how many times streaming_download has been called
    callpc,     \* "idle", "running", "returned" or "raised"
    prevOutcome,\* how the previous call ended: "none", "returned", "raised"
    tpc,        \* tpc[t]: "pending", "inflight", "skipped", "completed", "failed"
    finished,   \* the tasks whose _download returned, in completion order
    requests,   \* HTTP requests sent during the current call
    opened,     \* the tasks whose destination the current call opened for writing
    fpaths,     \* the value the current call returned (NoValue before)
    exc,        \* the exception the current call raised ("none" before)
    retries,    \* connection retries of the transport for the singled-out task
    tin,        \* the arguments of the bbox_decompose call
    tout,       \* what bbox_decompose returned or raised
    tilepc,     \* "ready" before the call of bbox_decompose, "done" after
    req1, req2, \* the arguments of two calls of create_request_key
    key1, key2, \* the keys the two calls returned
    keypc,      \* "ready" before the two calls, "done" after
    win,        \* the arguments of the wms_getmap call
    wout,       \* what wms_getmap built, returned or raised
    wmspc,      \* "ready" before the call of wms_getmap, "done" after
    conf,       \* the content of the configuration file given to the CLI
    cfs,        \* the paths that exist under the data directory
    clipc,      \* where the current run of the CLI stands
    cliow,      \* the --overwrite flag of the current run
    crun,       \* how many runs of the CLI were started
    cexit,      \* the exit code of the current run (-1 while it runs)
    cerr,       \* the exception that ended the current run ("none" if none)
    prevExit,   \* the exit code of the previous run (-1 if none)
    rin,        \* the urls, kwds, fnames and n_jobs of a batch whose files may coincide
    rfiles,     \* the destinations computed so far for the tasks of that batch
    rpc,        \* rpc[t]: "pending", "requested", "writing", "done" or "skipped"
    rdisk,      \* the files of that batch: rdisk[p] is the content at path p
    rpos,       \* rpos[t]: how many bytes task t has written to its open file
    racepc,     \* "ready", "running", "returned" or "raised"
    flwin,      \* the arguments of the _get_flowlines call
    flwfs,      \* the flowline and attribute files on disk
    flwi,       \* the index of the geometry the loop of _get_flowlines is at
    flwpc,      \* where _get_flowlines stands
    wd,         \* the local wd of _get_flowlines: "None" or "WaterData"
    wdcalls,    \* how many times WaterData was instantiated
    reported,   \* the failures _get_flowlines caught and printed
    fl,         \* a FileList: the sequence of its elements
    fllast,     \* the last operation on the FileList
    aconf,      \* the aoi section of a configuration and the state of aoi.parquet
    aout,       \* what get_aoi did: its branch, its requests, what it stored
    apc,        \* "ready", then "validated" or "rejected", then "done"
    gin,        \* a per-geometry fetcher, the number of geometries, the files on disk
    gst,        \* the state of the loop of that fetcher
    gpc         \* "ready", "loop" or "returned"

dlvars == <<ntasks, n_jobs, urlsIsStr, args, files, remote, odd, disk, dirs, call,
            callpc, prevOutcome, tpc, finished, requests, opened, fpaths, exc,
            retries>>
tilevars == <<tin, tout, tilepc>>
keyvars == <<req1, req2, key1, key2, keypc>>
wmsvars == <<win, wout, wmspc>>
clivars == <<conf, cfs, clipc, cliow, crun, cexit, cerr, prevExit>>
racevars == <<rin, rfiles, rpc, rdisk, rpos, racepc>>
flwvars == <<flwin, flwfs, flwi, flwpc, wd, wdcalls, reported>>
flvars == <<fl, fllast>>
aoivars == <<aconf, aout, apc>>
fetchvars == <<gin, gst, gpc>>
vars == <<dlvars, tilevars, keyvars, wmsvars, clivars, racevars, flwvars, flvars,
          aoivars, fetchvars>>

\* What a specification leaves alone: the variables of the other components.
restDL == <<tilevars, keyvars, wmsvars, clivars, racevars,
      flwvars, flvars, aoivars, fetchvars>>
restTile == <<dlvars, keyvars, wmsvars, clivars, racevars,
      flwvars, flvars, aoivars, fetchvars>>
restKey == <<dlvars, tilevars, wmsvars, clivars, racevars,
      flwvars, flvars, aoivars, fetchvars>>
restWms == <<dlvars, tilevars, keyvars, clivars, racevars,
      flwvars, flvars, aoivars, fetchvars>>
restCli == <<dlvars, tilevars, keyvars, wmsvars, racevars,
      flwvars, flvars, aoivars, fetchvars>>
restRace == <<dlvars, tilevars, keyvars, wmsvars, clivars,
      flwvars, flvars, aoivars, fetchvars>>
restFlw == <<dlvars, tilevars, keyvars, wmsvars, clivars,
      racevars, flvars, aoivars, fetchvars>>
restFl == <<dlvars, tilevars, keyvars, wmsvars, clivars,
      racevars, flwvars, aoivars, fetchvars>>
restAoi == <<dlvars, tilevars, keyvars, wmsvars, clivars,
      racevars, flwvars, flvars, fetchvars>>
restFetch == <<dlvars, tilevars, keyvars, wmsvars, clivars,
      racevars, flwvars, flvars, aoivars>>

NoValue == <<>>

\* The components a specification does not exercise stay in these states.
DLIdle ==
    /\ ntasks = 0 /\ n_jobs = 1 /\ urlsIsStr = FALSE /\ args = <<>>
    /\ files = <<>> /\ remote = <<>> /\ odd = 0 /\ disk = <<>> /\ dirs = {}
    /\ call = 0 /\ callpc = "off" /\ prevOutcome = "none"
    /\ tpc = <<>> /\ finished = <<>> /\ requests = 0 /\ opened = {}
    /\ fpaths = NoValue /\ exc = "none" /\ retries = 0

TileIdle == tin = <<>> /\ tout = <<>> /\ tilepc = "off"

KeyIdle ==
    /\ req1 = <<>> /\ req2 = <<>> /\ key1 = <<>> /\ key2 = <<>> /\ keypc = "off"

WmsIdle == win = <<>> /\ wout = <<>> /\ wmspc = "off"

CliIdle ==
    /\ conf = <<>> /\ cfs = {} /\ clipc = "off" /\ cliow = FALSE /\ crun = 0
    /\ cexit = -1 /\ cerr = "none" /\ prevExit = -1

RaceIdle ==
    /\ rin = <<>> /\ rfiles = <<>> /\ rpc = <<>> /\ rdisk = <<>> /\ rpos = <<>>
    /\ racepc = "off"

FlwIdle ==
    /\ flwin = <<>> /\ flwfs = {} /\ flwi = 0 /\ flwpc = "off" /\ wd = "None"
    /\ wdcalls = 0 /\ reported = {}

FlIdle == fl = <<>> /\ fllast = <<>>

AoiIdle == aconf = <<>> /\ aout = <<>> /\ apc = "off"

FetchIdle == gin = <<>> /\ gst = <<>> /\ gpc = "off"

(***************************************************************************)
(* Strings are sequences of character codes.                               *)
(***************************************************************************)
GET  == <<71, 69, 84>>
get  == <<103, 101, 116>>
POST == <<80, 79, 83, 84>>
PUT  == <<80, 85, 84>>

\* str.upper, str.lower
Upper(s) == [i \in DOMAIN s |-> IF s[i] \in 97 .. 122 THEN s[i] - 32 ELSE s[i]]
Lower(s) == [i \in DOMAIN s |-> IF s[i] \in 65 .. 90 THEN s[i] + 32 ELSE s[i]]

(***************************************************************************)
(* Bounds of the model.                                                    *)
(***************************************************************************)
MaxTasks == 3   \* tasks per batch
MaxJobs  == 2   \* largest n_jobs argument
MaxCalls == 2   \* calls of streaming_download on the same task list

NoFile  == [exists |-> FALSE, data |-> <<>>, partial |-> FALSE]
File(c) == [exists |-> TRUE, data |-> c, partial |-> FALSE]

\* The file an interrupted write left behind.  The field partial records
\* where the file comes from; no code reads it.
PartialFile(c) == [exists |-> TRUE, data |-> c, partial |-> TRUE]

Tasks == 1 .. ntasks
Paths == 1 .. MaxTasks

Min(a, b) == IF a <= b THEN a ELSE b

(***************************************************************************)
(* The environment of one task: the response of the server (status,        *)
(* Content-Length header with -1 for "no header", body as the bytes that   *)
(* resp.iter_bytes yields) and the file present at the destination before  *)
(* the first call.                                                         *)
(***************************************************************************)
PlainRemote == [status |-> 200, cl |-> 1, body |-> <<1>>]

Remotes ==
    { PlainRemote,
      [status |-> 200, cl |-> -1, body |-> <<1>>],     \* no Content-Length
      [status |-> 200, cl |-> 2,  body |-> <<1>>],     \* encoded: header /= decoded size
      [status |-> 200, cl |-> 2,  body |-> <<1, 2>>],  \* a longer body
      [status |-> 200, cl |-> 1,  body |-> <<1, 2>>],  \* compressed: header < decoded size
      [status |-> 200, cl |-> 0,  body |-> <<>>],      \* an empty body
      [status |-> 500, cl |-> 1,  body |-> <<2>>] }    \* an error page

Contents == {<<>>, <<1>>, <<2>>, <<1, 2>>}

Plain(r, c, hasdir) == r = PlainRemote /\ c = NoFile /\ hasdir

\* What an interrupted download leaves: the bytes written before the break.
Partials(body) ==
    { SubSeq(body, 1, k) : k \in 0 .. (IF body = <<>> THEN 0 ELSE Len(body) - 1) }

(***************************************************************************)
(* _download, lines 235-236: fsize is the Content-Length header or -1, and *)
(* the body is written unless the file exists with exactly that size.      *)
(***************************************************************************)
FsizeOfBody(resp) == IF resp.cl = -1 THEN Len(resp.body) ELSE resp.cl

Fsize(resp) == resp.cl

NeedsWriteAlways(d, p, resp) == TRUE

NeedsWriteIfMissing(d, p, resp) == ~d[p].exists

NeedsWriteIfEmpty(d, p, resp) == ~d[p].exists \/ Len(d[p].data) = 0

NeedsWrite(d, p, resp) == ~d[p].exists \/ Len(d[p].data) /= Fsize(resp)

\* streaming_download, line 348: n_jobs = min(n_jobs, len(url_list))
NWorkersUnbounded(nj, n) == n

NWorkers(nj, n) == Min(nj, n)

InFlight == { t \in Tasks : tpc[t] = "inflight" }

\* joblib.Parallel returns the results in the order of the submitted tasks.
GatherAsCompleted(fin, fs, n) == [i \in 1 .. Len(fin) |-> fs[fin[i]]]

Gather(fin, fs, n) == [t \in 1 .. n |-> fs[t]]

\* streaming_download, lines 355-357
ReturnValue(isStr, fp) == IF isStr THEN fp[1] ELSE fp

\* httpx_client, line 117: HTTPTransport(retries=3)
Retries == 3

(***************************************************************************)
(* The arguments streaming_download validates: the method, the kwds (none, *)
(* or one dict per URL that may hold a key outside params/data/json/       *)
(* headers, or a list of another length than the URLs) and the fnames (one *)
(* per URL, or a list of another length).                                  *)
(***************************************************************************)
DefaultArgs == [method |-> GET, kwds |-> "none", badkey |-> FALSE, fnames |-> "ok"]

ArgCases ==
    { a \in [method : {GET, get, POST, PUT}, kwds : {"none", "ok", "short"},
             badkey : BOOLEAN, fnames : {"ok", "short"}] :
        /\ (a.kwds = "none" => ~a.badkey)
        /\ (a.method /= GET => (a.kwds = "none" /\ a.fnames = "ok")) }

\* streaming_download, lines 338-341, and _prepare_requests_args, lines
\* 196-202 and 218-220, in the order of the code: the exception raised, or
\* "none".  InputValueError is not a name of the module clients: the two
\* raise statements that use it raise NameError.
CheckArgsTypeErrorOnly(a) ==
    IF a.kwds = "short" THEN "InputTypeError"
    ELSE IF a.fnames = "short" THEN "InputTypeError"
    ELSE "none"

CheckArgs(a) ==
    IF Upper(a.method) \notin {GET, POST} THEN "NameError"
    ELSE IF a.badkey THEN "NameError"
    ELSE IF a.kwds = "short" THEN "InputTypeError"
    ELSE IF a.fnames = "short" THEN "InputTypeError"
    ELSE "none"

ValidArgs(a) ==
    /\ Upper(a.method) \in {GET, POST}
    /\ ~a.badkey
    /\ a.kwds /= "short"
    /\ a.fnames /= "short"

(***************************************************************************)
(* Initial states: a batch of up to MaxTasks tasks with distinct           *)
(* destinations.  One task of the batch is singled out: it may start from  *)
(* any server answer and any file at its destination, and its requests may *)
(* fail.  The others are the plain case: a fresh destination in an         *)
(* existing directory, a 200 response with an exact Content-Length, and a  *)
(* network that delivers it.  Arguments other than the default ones are    *)
(* tried on the batches without a singled-out task.                        *)
(***************************************************************************)
InitDL ==
    /\ ntasks \in 0 .. MaxTasks
    /\ n_jobs \in 1 .. MaxJobs
    /\ urlsIsStr \in IF ntasks = 1 THEN BOOLEAN ELSE {FALSE}
    /\ args \in ArgCases
    /\ files = [t \in Tasks |-> t]
    /\ odd \in 0 .. ntasks
    /\ (odd /= 0 => args = DefaultArgs)
    /\ \E r \in Remotes, f \in {File(c) : c \in Contents} \cup {NoFile},
          hasdir \in BOOLEAN :
          /\ f.exists => hasdir
          /\ odd = 0 => Plain(r, f, hasdir)
          /\ remote = [t \in Tasks |-> IF t = odd THEN r ELSE PlainRemote]
          /\ disk = [p \in Paths |-> IF p = odd THEN f ELSE NoFile]
          /\ dirs = IF hasdir THEN Paths ELSE Paths \ {odd}
    /\ call = 0
    /\ callpc = "idle"
    /\ prevOutcome = "none"
    /\ tpc = [t \in Tasks |-> "pending"]
    /\ finished = <<>>
    /\ requests = 0
    /\ opened = {}
    /\ fpaths = NoValue
    /\ exc = "none"
    /\ retries = 0
    /\ TileIdle
    /\ KeyIdle
    /\ WmsIdle
    /\ CliIdle
    /\ RaceIdle
    /\ FlwIdle
    /\ FlIdle
    /\ AoiIdle
    /\ FetchIdle

(***************************************************************************)
(* streaming_download, lines 338-349: a call starts.  The arguments are    *)
(* validated first.  joblib.Parallel refuses n_jobs = 0, which is what     *)
(* min(n_jobs, 0) gives for an empty batch.                                *)
(***************************************************************************)
StartCall ==
    /\ callpc \in {"idle", "returned", "raised"}
    /\ InFlight = {}
    /\ call < MaxCalls
    /\ call' = call + 1
    /\ prevOutcome' = IF callpc = "idle" THEN "none" ELSE callpc
    /\ exc' = IF CheckArgs(args) /= "none" THEN CheckArgs(args)
              ELSE IF NWorkers(n_jobs, ntasks) = 0 THEN "ValueError"
              ELSE "none"
    /\ callpc' = IF exc' /= "none" THEN "raised" ELSE "running"
    /\ retries' = 0
    /\ tpc' = [t \in Tasks |-> "pending"]
    /\ finished' = <<>>
    /\ requests' = 0
    /\ opened' = {}
    /\ fpaths' = NoValue
    /\ UNCHANGED <<restDL, ntasks, n_jobs, urlsIsStr, args, files, remote, odd, disk, dirs>>

(***************************************************************************)
(* A free worker of the pool takes the next task; the size is asked for    *)
(* with a request of its own before the streaming request.                 *)
(***************************************************************************)
DispatchWithSizeRequest(t) ==
    /\ callpc = "running"
    /\ tpc[t] = "pending"
    /\ \A u \in Tasks : u < t => tpc[u] /= "pending"
    /\ Cardinality(InFlight) < NWorkers(n_jobs, ntasks)
    /\ tpc' = [tpc EXCEPT ![t] = "inflight"]
    /\ requests' = requests + 2
    /\ UNCHANGED <<restDL, ntasks, n_jobs, urlsIsStr, args, files, remote, odd, disk, dirs,
                   call, callpc, prevOutcome, finished, opened, fpaths, exc,
                   retries>>

(***************************************************************************)
(* A free worker of the pool takes the next task and _download sends its   *)
(* request (client.stream, line 234).                                      *)
(***************************************************************************)
Dispatch(t) ==
    /\ callpc = "running"
    /\ tpc[t] = "pending"
    /\ \A u \in Tasks : u < t => tpc[u] /= "pending"
    /\ Cardinality(InFlight) < NWorkers(n_jobs, ntasks)
    /\ tpc' = [tpc EXCEPT ![t] = "inflight"]
    /\ requests' = requests + 1
    /\ UNCHANGED <<restDL, ntasks, n_jobs, urlsIsStr, args, files, remote, odd, disk, dirs,
                   call, callpc, prevOutcome, finished, opened, fpaths, exc,
                   retries>>

(***************************************************************************)
(* httpx_client, lines 116-120: the connection cannot be established and   *)
(* the transport tries again, up to Retries times.                         *)
(***************************************************************************)
ConnRetry(t) ==
    /\ t = odd
    /\ tpc[t] = "inflight"
    /\ retries < Retries
    /\ retries' = retries + 1
    /\ UNCHANGED <<restDL, ntasks, n_jobs, urlsIsStr, args, files, remote, odd, disk, dirs,
                   call, callpc, prevOutcome, tpc, finished, requests, opened,
                   fpaths, exc>>

(***************************************************************************)
(* The request fails for good (the retries of the transport are used up):  *)
(* client.stream raises, _download raises, nothing is written.             *)
(***************************************************************************)
ConnFail(t) ==
    /\ t = odd
    /\ tpc[t] = "inflight"
    /\ retries = Retries
    /\ tpc' = [tpc EXCEPT ![t] = "failed"]
    /\ UNCHANGED <<restDL, ntasks, n_jobs, urlsIsStr, args, files, remote, odd, disk, dirs,
                   call, callpc, prevOutcome, finished, requests, opened, fpaths,
                   exc, retries>>

(***************************************************************************)
(* _download, lines 234-240: the response arrives; the file is kept when   *)
(* it has the announced size, else it is rewritten with the whole body.    *)
(* The status of the response is not looked at.                            *)
(***************************************************************************)
Download(t) ==
    /\ tpc[t] = "inflight"
    /\ IF NeedsWrite(disk, files[t], remote[t])
       THEN /\ dirs' = dirs \cup {files[t]}
            /\ disk' = [disk EXCEPT ![files[t]] = File(remote[t].body)]
            /\ opened' = opened \cup {t}
            /\ tpc' = [tpc EXCEPT ![t] = "completed"]
       ELSE /\ UNCHANGED <<disk, dirs, opened>>
            /\ tpc' = [tpc EXCEPT ![t] = "skipped"]
    /\ finished' = Append(finished, t)
    /\ UNCHANGED <<restDL, ntasks, n_jobs, urlsIsStr, args, files, remote, odd, call, callpc,
                   prevOutcome, requests, fpaths, exc, retries>>

(***************************************************************************)
(* _download, lines 238-239: the stream breaks after the file was opened   *)
(* with "wb": a strict prefix of the body stays on disk and _download      *)
(* raises.                                                                 *)
(***************************************************************************)
Abort(t) ==
    /\ t = odd
    /\ tpc[t] = "inflight"
    /\ NeedsWrite(disk, files[t], remote[t])
    /\ \E part \in Partials(remote[t].body) :
          disk' = [disk EXCEPT ![files[t]] = PartialFile(part)]
    /\ dirs' = dirs \cup {files[t]}
    /\ opened' = opened \cup {t}
    /\ tpc' = [tpc EXCEPT ![t] = "failed"]
    /\ UNCHANGED <<restDL, ntasks, n_jobs, urlsIsStr, args, files, remote, odd, call, callpc,
                   prevOutcome, finished, requests, fpaths, exc, retries>>

(***************************************************************************)
(* streaming_download, lines 349-357: every _download returned, the call   *)
(* returns the gathered paths.                                             *)
(***************************************************************************)
Return ==
    /\ callpc = "running"
    /\ \A t \in Tasks : tpc[t] \in {"skipped", "completed"}
    /\ callpc' = "returned"
    /\ fpaths' = ReturnValue(urlsIsStr, Gather(finished, files, ntasks))
    /\ UNCHANGED <<restDL, ntasks, n_jobs, urlsIsStr, args, files, remote, odd, disk, dirs,
                   call, prevOutcome, tpc, finished, requests, opened, exc,
                   retries>>

(***************************************************************************)
(* streaming_download, line 349: nothing catches the exception of a        *)
(* _download; joblib.Parallel re-raises it in the caller.  The tasks not   *)
(* yet dispatched are dropped, the running threads run on.                 *)
(***************************************************************************)
Raise ==
    /\ callpc = "running"
    /\ \E t \in Tasks : tpc[t] = "failed"
    /\ callpc' = "raised"
    /\ exc' = "DownloadError"
    /\ UNCHANGED <<restDL, ntasks, n_jobs, urlsIsStr, args, files, remote, odd, disk, dirs,
                   call, prevOutcome, tpc, finished, requests, opened, fpaths,
                   retries>>

NextDL ==
    \/ StartCall
    \/ \E t \in Tasks : Dispatch(t)
    \/ \E t \in Tasks : ConnRetry(t)
    \/ \E t \in Tasks : ConnFail(t)
    \/ \E t \in Tasks : Download(t)
    \/ \E t \in Tasks : Abort(t)
    \/ Return
    \/ Raise

SpecDL == InitDL /\ [][NextDL]_vars

(***************************************************************************)
(* Properties of streaming_download and _download, checked under SpecDL.   *)
(***************************************************************************)
CallEnded == callpc \in {"returned", "raised"}

\* Every response announces the size of its body.
ExactLengths == \A t \in Tasks : remote[t].cl = Len(remote[t].body)

\* The call at hand follows a call that returned normally.
Repeated == call >= 2 /\ prevOutcome = "returned"

Failing(t) == tpc[t] = "failed" \/ remote[t].status \notin 200 .. 299

\* C2: when a call with a failing task has ended, it has returned normally
\* and every other task has run to its end: the failure of one task does
\* not abort its siblings.
C2_FailureIsolated ==
    (CallEnded /\ \E t \in Tasks : Failing(t)) =>
        /\ callpc = "returned"
        /\ \A u \in Tasks : ~Failing(u) => tpc[u] \in {"skipped", "completed"}

\* C3: a call that returns gives one destination path per input task, in
\* the order of the input tasks (the path itself for a single URL given as
\* a string), whatever the order in which the downloads completed.
C3_PathsInInputOrder ==
    callpc = "returned" =>
        IF urlsIsStr THEN fpaths = files[1]
        ELSE /\ Len(fpaths) = ntasks
             /\ \A t \in Tasks : fpaths[t] = files[t]

\* A call returned whose downloads completed out of input order.
C3_Witness ==
    /\ callpc = "returned"
    /\ \E i, j \in DOMAIN finished : i < j /\ finished[i] > finished[j]

\* C4: when _download gets its response, a destination that exists with a
\* size equal to the Content-Length is skipped (not opened for writing, no
\* file changed), and any other destination is opened for writing and ends
\* up holding the body of the response, in an existing parent directory,
\* with no other file changed.
C4_SkipOrWrite ==
    [][\A t \in Tasks :
          (tpc[t] = "inflight" /\ tpc'[t] \in {"skipped", "completed"}) =>
              IF /\ disk[files[t]].exists
                 /\ Len(disk[files[t]].data) = remote[t].cl
              THEN /\ tpc'[t] = "skipped"
                   /\ t \notin opened'
                   /\ disk' = disk
              ELSE /\ tpc'[t] = "completed"
                   /\ t \in opened'
                   /\ files[t] \in dirs'
                   /\ disk'[files[t]] = File(remote[t].body)
                   /\ \A p \in Paths \ {files[t]} : disk'[p] = disk[p]]_vars

\* One task was skipped over a file of the announced size whose content is
\* not the body of the response, and another one was written in full.
C4_Witness ==
    /\ \E t \in Tasks :
          /\ tpc[t] = "skipped"
          /\ disk[files[t]].data /= remote[t].body
    /\ \E u \in Tasks :
          /\ tpc[u] = "completed"
          /\ disk[files[u]] = File(remote[u].body)

\* C5: at every moment of a call the number of requests in flight is at
\* most min(n_jobs, number of tasks).
C5_InFlightBounded == Cardinality(InFlight) <= Min(n_jobs, ntasks)

\* More tasks than jobs, and n_jobs >= 2 requests in flight at once.
C5_Witness ==
    /\ ntasks > n_jobs
    /\ n_jobs >= 2
    /\ Cardinality(InFlight) = n_jobs

\* C13: a call of streaming_download with an invalid argument (a method other
\* than GET/POST, a kwds key outside params/data/json/headers, kwds or fnames
\* of another length than the URLs) raises, and it sends no HTTP request,
\* starts no task and changes no file or directory.
C13_InvalidArgsFailFast ==
    [][~ValidArgs(args) =>
          /\ callpc' = "raised"
          /\ exc' \in {"NameError", "InputTypeError"}
          /\ requests' = 0
          /\ opened' = {}
          /\ \A t \in Tasks : tpc'[t] = "pending"
          /\ disk' = disk
          /\ dirs' = dirs]_vars

\* A call over a batch of at least two tasks was refused for its method.
C13_Witness ==
    /\ callpc = "raised"
    /\ args.method = PUT
    /\ ntasks >= 2
    /\ requests = 0

\* C14: when a call has returned, no task whose response had a status
\* outside 2xx has written its destination.
C14_ErrorBodyNotStored ==
    callpc = "returned" =>
        \A t \in Tasks : remote[t].status \notin 200 .. 299 => t \notin opened

Terminal == {"skipped", "completed", "failed"}

\* C19: during a call a task moves only from pending to in flight (its one
\* request is sent) and from in flight to skipped, completed or failed; it
\* never goes back to pending, never leaves skipped, completed or failed, and
\* at most one request per task is sent.
C19_TaskStateMachine ==
    [][call' = call =>
          /\ \A t \in Tasks :
                \/ tpc'[t] = tpc[t]
                \/ tpc[t] = "pending" /\ tpc'[t] = "inflight"
                \/ tpc[t] = "inflight" /\ tpc'[t] \in Terminal
          /\ requests' = Cardinality({ t \in Tasks : tpc'[t] /= "pending" })]_vars

\* A call has one task skipped, one completed and one failed.
C19_Witness ==
    /\ \E t \in Tasks : tpc[t] = "skipped"
    /\ \E t \in Tasks : tpc[t] = "completed"
    /\ \E t \in Tasks : tpc[t] = "failed"
    /\ requests = 3

\* C20: the transport retries a connection at most Retries times, and when a
\* call with valid arguments over a non-empty batch has ended and its
\* threads have ended, it has returned and every task is skipped, completed
\* or failed.
C20_EveryTaskEndsAndCallReturns ==
    /\ retries <= Retries
    /\ (CallEnded /\ InFlight = {} /\ ValidArgs(args) /\ ntasks > 0) =>
          /\ callpc = "returned"
          /\ \A t \in Tasks : tpc[t] \in Terminal

\* A file that holds a strict prefix of the body of the response.
StrictPrefix(f, body) ==
    /\ f.exists
    /\ Len(f.data) < Len(body)
    /\ f.data = SubSeq(body, 1, Len(f.data))

\* A write of task t is interrupted in this step.
Aborts(t) == tpc[t] = "inflight" /\ tpc'[t] = "failed" /\ t \in opened'

\* The response of task t is dealt with in this step over the file an
\* interrupted write left.
OverPartial(t) ==
    /\ tpc[t] = "inflight" /\ tpc'[t] \in {"skipped", "completed"}
    /\ disk[files[t]].partial
    /\ StrictPrefix(disk[files[t]], remote[t].body)

Refetched(t) ==
    /\ tpc'[t] = "completed"
    /\ t \in opened'
    /\ disk'[files[t]] = File(remote[t].body)

C34_NoContentLengthAlwaysRewritten ==
    [][\A t \in Tasks :
          (/\ remote[t].cl = -1
           /\ tpc[t] = "inflight"
           /\ tpc'[t] \in {"skipped", "completed"}) => Refetched(t)]_vars

\* The second call wrote again the file the first call had left complete.
C34_Witness ==
    /\ call = 2 /\ prevOutcome = "returned"
    /\ \E t \in Tasks :
          /\ remote[t].cl = -1
          /\ tpc[t] = "completed"
          /\ t \in opened
          /\ disk[files[t]] = File(remote[t].body)

(***************************************************************************)
(* bbox_decompose.                                                         *)
(*                                                                         *)
(* A bbox is the tuple the caller passes: four coordinates (west, south,   *)
(* east, north), or a malformed tuple of three.  The geodesic lengths of   *)
(* the bottom and of the left edge (pyproj.Geod.geometry_length) are       *)
(* inputs: zero exactly when the edge has no extent.                       *)
(***************************************************************************)
MaxCoord == 2   \* coordinates are drawn from 0 .. MaxCoord
MaxDist  == 6   \* geodesic edge lengths are drawn from 1 .. MaxDist
MaxRes   == 2   \* resolutions are drawn from 1 .. MaxRes
MaxPx    == 5   \* max_px is drawn from 1 .. MaxPx

Coords == 0 .. MaxCoord

RECURSIVE SumSeq(_)
SumSeq(s) == IF s = <<>> THEN 0 ELSE s[1] + SumSeq(Tail(s))

Abs(x) == IF x < 0 THEN -x ELSE x

\* int(np.ceil(dist / resolution)), lines 421-422
CeilDiv(a, b) == (a + b - 1) \div b

\* check_bbox, lines 360-365: shapely.box(*bbox) raises for anything but
\* four numbers; the order of the coordinates is not looked at.
CheckBbox(bbox) == Len(bbox) = 4

\* n_px = int(np.sqrt(max_px)), line 427
NpxCeil(max_px) == CHOOSE k \in 0 .. max_px : (k - 1) * (k - 1) < max_px /\ max_px <= k * k

Npx(max_px) == CHOOSE k \in 0 .. max_px : k * k <= max_px /\ max_px < (k + 1) * (k + 1)

\* line 430: the pixel counts of the chunks of one axis
NptPadded(px_tot, n_px) ==
    [i \in 1 .. (px_tot \div n_px) |-> n_px] \o <<n_px>>

Npt(px_tot, n_px) ==
    [i \in 1 .. (px_tot \div n_px) |-> n_px] \o <<px_tot % n_px>>

\* lines 431-434: the chunk boundaries of one axis, as numerators over
\* sum(npt): xs[1] = low and xs[k+1] = low + dx[1] + ... + dx[k], with
\* dx[i] = xd * npt[i] / sum(npt)
XsNoAccumulate(low, high, npt) ==
    LET den == SumSeq(npt)
        xd  == Abs(high - low)
    IN  [k \in 1 .. (Len(npt) + 1) |->
            IF k = 1 THEN low * den ELSE low * den + xd * npt[k - 1]]

Xs(low, high, npt) ==
    LET den == SumSeq(npt)
        xd  == Abs(high - low)
    IN  [k \in 1 .. (Len(npt) + 1) |->
            low * den + xd * SumSeq(SubSeq(npt, 1, k - 1))]

\* lines 440-444: one tile per row j and column i, rows outermost; the label
\* "{i}_{j}" is the pair <<i, j>>
TileListRowFirstLabel(nw, xs, xden, nh, ys, yden) ==
    [n \in 1 .. (Len(nh) * Len(nw)) |->
        LET j == (n - 1) \div Len(nw)
            i == (n - 1) % Len(nw)
        IN  [x0 |-> xs[i + 1], x1 |-> xs[i + 2], xden |-> xden,
             y0 |-> ys[j + 1], y1 |-> ys[j + 2], yden |-> yden,
             label |-> <<j, i>>, w |-> nw[i + 1], h |-> nh[j + 1]]]

TileList(nw, xs, xden, nh, ys, yden) ==
    [n \in 1 .. (Len(nh) * Len(nw)) |->
        LET j == (n - 1) \div Len(nw)
            i == (n - 1) % Len(nw)
        IN  [x0 |-> xs[i + 1], x1 |-> xs[i + 2], xden |-> xden,
             y0 |-> ys[j + 1], y1 |-> ys[j + 2], yden |-> yden,
             label |-> <<i, j>>, w |-> nw[i + 1], h |-> nh[j + 1]]]

(***************************************************************************)
(* bbox_decompose, lines 411-445.  The single tile of line 425 is          *)
(* overwritten at line 440: the split is computed in every case.  A pixel  *)
(* total of zero makes sum(npt) zero and line 432 divides by it.           *)
(***************************************************************************)
BboxDecompose(a) ==
    IF ~CheckBbox(a.bbox)
    THEN [err |-> "InputTypeError", width |-> 0, height |-> 0, tiles |-> <<>>]
    ELSE
      LET west   == a.bbox[1]
          south  == a.bbox[2]
          east   == a.bbox[3]
          north  == a.bbox[4]
          width  == CeilDiv(a.x_dist, a.resolution)
          height == CeilDiv(a.y_dist, a.resolution)
          n_px   == Npx(a.max_px)
          nw     == Npt(width, n_px)
          nh     == Npt(height, n_px)
      IN  IF SumSeq(nw) = 0 \/ SumSeq(nh) = 0
          THEN [err |-> "ZeroDivisionError", width |-> width, height |-> height,
                tiles |-> <<>>]
          ELSE [err |-> "none", width |-> width, height |-> height,
                tiles |-> TileList(nw, Xs(west, east, nw), SumSeq(nw),
                                   nh, Xs(south, north, nh), SumSeq(nh))]

TileInputs ==
    { a \in [bbox : [1 .. 4 -> Coords] \cup [1 .. 3 -> Coords],
             x_dist : 0 .. MaxDist, y_dist : 0 .. MaxDist,
             resolution : 1 .. MaxRes, max_px : 1 .. MaxPx] :
        IF Len(a.bbox) = 4
        THEN /\ (a.x_dist = 0) <=> (a.bbox[1] = a.bbox[3])
             /\ (a.y_dist = 0) <=> (a.bbox[2] = a.bbox[4])
        ELSE a.x_dist = 0 /\ a.y_dist = 0 /\ a.resolution = 1 /\ a.max_px = 1 }

InitTile ==
    /\ tin \in TileInputs
    /\ tout = <<>>
    /\ tilepc = "ready"
    /\ DLIdle
    /\ WmsIdle
    /\ KeyIdle
    /\ CliIdle
    /\ RaceIdle
    /\ FlwIdle
    /\ FlIdle
    /\ AoiIdle
    /\ FetchIdle

Decompose ==
    /\ tilepc = "ready"
    /\ tout' = BboxDecompose(tin)
    /\ tilepc' = "done"
    /\ UNCHANGED <<restTile, tin>>

NextTile == Decompose

SpecTile == InitTile /\ [][NextTile]_vars

(***************************************************************************)
(* Properties of bbox_decompose, checked under SpecTile.                   *)
(***************************************************************************)
\* A valid bbox: four coordinates with west < east and south < north.
ValidBbox(bbox) == Len(bbox) = 4 /\ bbox[1] < bbox[3] /\ bbox[2] < bbox[4]

Decomposed == tilepc = "done" /\ ValidBbox(tin.bbox)

TileArea(t) == (t.x1 - t.x0) * (t.y1 - t.y0)

RECURSIVE AreaSum(_)
AreaSum(ts) == IF ts = <<>> THEN 0 ELSE TileArea(ts[1]) + AreaSum(Tail(ts))

\* Every tile lies inside the bbox.
TilesInside(bbox, ts) ==
    \A n \in DOMAIN ts :
        /\ bbox[1] * ts[n].xden <= ts[n].x0 /\ ts[n].x0 <= ts[n].x1
        /\ ts[n].x1 <= bbox[3] * ts[n].xden
        /\ bbox[2] * ts[n].yden <= ts[n].y0 /\ ts[n].y0 <= ts[n].y1
        /\ ts[n].y1 <= bbox[4] * ts[n].yden

\* No two tiles share interior points.
TilesDisjoint(ts) ==
    \A m, n \in DOMAIN ts :
        m /= n => \/ ts[m].x1 <= ts[n].x0 \/ ts[n].x1 <= ts[m].x0
                  \/ ts[m].y1 <= ts[n].y0 \/ ts[n].y1 <= ts[m].y0

\* The tiles leave no part of the bbox out: their areas add up to its area.
TilesFill(bbox, ts) ==
    \A n \in DOMAIN ts :
        AreaSum(ts) = (bbox[3] - bbox[1]) * ts[n].xden
                        * (bbox[4] - bbox[2]) * ts[n].yden

\* Neighbours share their boundary, the outer tiles end on the bbox.
TilesAbut(bbox, ts) ==
    \A n \in DOMAIN ts :
        LET t == ts[n]
            right == { u \in DOMAIN ts :
                         ts[u].label = <<t.label[1] + 1, t.label[2]>> }
            above == { u \in DOMAIN ts :
                         ts[u].label = <<t.label[1], t.label[2] + 1>> }
        IN  /\ t.label[1] = 0 => t.x0 = bbox[1] * t.xden
            /\ t.label[2] = 0 => t.y0 = bbox[2] * t.yden
            /\ IF right = {} THEN t.x1 = bbox[3] * t.xden
                             ELSE \A u \in right : ts[u].x0 = t.x1
            /\ IF above = {} THEN t.y1 = bbox[4] * t.yden
                             ELSE \A u \in above : ts[u].y0 = t.y1

C7_TileWithinBudget ==
    Decomposed =>
        \A n \in DOMAIN tout.tiles :
            tout.tiles[n].w * tout.tiles[n].h <= tin.max_px

\* A bbox over the budget is split and one of its tiles uses the budget up.
C7_Witness ==
    /\ Decomposed
    /\ tout.width * tout.height > tin.max_px
    /\ Len(tout.tiles) > 1
    /\ \E n \in DOMAIN tout.tiles :
          tout.tiles[n].w * tout.tiles[n].h = tin.max_px

\* The whole bbox as one tile labeled "0_0".
WholeTile(a, width, height) ==
    [x0 |-> a.bbox[1] * width, x1 |-> a.bbox[3] * width, xden |-> width,
     y0 |-> a.bbox[2] * height, y1 |-> a.bbox[4] * height, yden |-> height,
     label |-> <<0, 0>>, w |-> width, h |-> height]

\* C8: when the pixel width times the pixel height of a valid bbox is at
\* most max_px, bbox_decompose returns exactly one tile: the whole bbox,
\* labeled "0_0", with the full pixel width and height.
C8_SingleTileWhenFits ==
    (Decomposed /\ tout.width * tout.height <= tin.max_px) =>
        tout.tiles = <<WholeTile(tin, tout.width, tout.height)>>

\* C9: a bbox that is not a well-formed rectangle with west < east and
\* south < north, a degenerate one included, makes bbox_decompose fail with
\* the bbox error of check_bbox, and a well-formed one passes.
C9_BboxValidated ==
    tilepc = "done" =>
        (tout.err = "InputTypeError") <=> ~ValidBbox(tin.bbox)

\* The bbox does not fit the budget.
OverBudget == tout.width * tout.height > tin.max_px

\* The tile of column i and row j.
TileAt(ts, i, j) == ts[CHOOSE n \in DOMAIN ts : ts[n].label = <<i, j>>]

Columns(ts) == { t.label[1] : t \in { ts[n] : n \in DOMAIN ts } }
Rows(ts)    == { t.label[2] : t \in { ts[n] : n \in DOMAIN ts } }

\* The pixel counts of the columns and of the rows, each counted once.
ColumnPixels(ts) == [k \in 1 .. Cardinality(Columns(ts)) |-> TileAt(ts, k - 1, 0).w]
RowPixels(ts)    == [k \in 1 .. Cardinality(Rows(ts)) |-> TileAt(ts, 0, k - 1).h]

RECURSIVE PixelSum(_)
PixelSum(ts) == IF ts = <<>> THEN 0 ELSE ts[1].w * ts[1].h + PixelSum(Tail(ts))

\* n is floor(sqrt(max_px)).
FloorSqrt(n, m) == n * n <= m /\ m < (n + 1) * (n + 1)

\* Every chunk but the last holds n pixels, the last one the remainder.
ChunksOf(npt, n, total) ==
    /\ \A k \in 1 .. (Len(npt) - 1) : npt[k] = n
    /\ npt[Len(npt)] = total - n * (Len(npt) - 1)
    /\ npt[Len(npt)] >= 0 /\ npt[Len(npt)] < n

\* C23: when the bbox exceeds the budget, each axis is cut into chunks of
\* n = floor(sqrt(max_px)) pixels with the remainder in the last chunk; the
\* chunks of an axis sum to its pixel total, the pixel counts of the tiles
\* sum to width * height, and the span of a tile along an axis is to the
\* extent of the bbox as its pixel count is to the pixel total.
C23_ChunksPartitionPixels ==
    (Decomposed /\ tout.err = "none" /\ OverBudget) =>
        LET ts == tout.tiles
            nw == ColumnPixels(ts)
            nh == RowPixels(ts)
        IN  /\ \E n \in 1 .. tin.max_px :
                  /\ FloorSqrt(n, tin.max_px)
                  /\ ChunksOf(nw, n, tout.width)
                  /\ ChunksOf(nh, n, tout.height)
            /\ SumSeq(nw) = tout.width
            /\ SumSeq(nh) = tout.height
            /\ PixelSum(ts) = tout.width * tout.height
            /\ \A k \in DOMAIN ts :
                  /\ (ts[k].x1 - ts[k].x0) * tout.width
                        = (tin.bbox[3] - tin.bbox[1]) * ts[k].w * ts[k].xden
                  /\ (ts[k].y1 - ts[k].y0) * tout.height
                        = (tin.bbox[4] - tin.bbox[2]) * ts[k].h * ts[k].yden

\* A bbox over the budget was cut into several columns and rows, the last
\* column narrower than the others.
C23_Witness ==
    /\ Decomposed /\ tout.err = "none" /\ OverBudget
    /\ Cardinality(Columns(tout.tiles)) >= 3
    /\ Cardinality(Rows(tout.tiles)) >= 2
    /\ \E t \in { tout.tiles[n] : n \in DOMAIN tout.tiles } :
          t.w > 0 /\ t.w < Npx(tin.max_px)

\* The tiles come row by row, and within a row column by column.
RowMajor(ts) ==
    \A n, m \in DOMAIN ts :
        n < m => \/ ts[n].label[2] < ts[m].label[2]
                 \/ /\ ts[n].label[2] = ts[m].label[2]
                    /\ ts[n].label[1] < ts[m].label[1]

\* C24: the tiles are exactly one per column and row of a rectangular grid,
\* listed row by row from the bottom-left one; the tile labelled <<i, j>> is
\* in column i (counted eastwards) and row j (counted northwards), and the
\* tile labelled <<0, 0>> starts at (west, south).
C24_GridRowMajorFromBottomLeft ==
    (Decomposed /\ tout.err = "none") =>
        LET ts == tout.tiles
            nc == Cardinality(Columns(ts))
            nr == Cardinality(Rows(ts))
        IN  /\ Columns(ts) = 0 .. (nc - 1)
            /\ Rows(ts) = 0 .. (nr - 1)
            /\ Len(ts) = nc * nr
            /\ \A i \in Columns(ts), j \in Rows(ts) :
                  Cardinality({ n \in DOMAIN ts : ts[n].label = <<i, j>> }) = 1
            /\ RowMajor(ts)
            /\ ts[1].label = <<0, 0>>
            /\ ts[1].x0 = tin.bbox[1] * ts[1].xden
            /\ ts[1].y0 = tin.bbox[2] * ts[1].yden
            /\ \A i \in Columns(ts), j \in Rows(ts) :
                  /\ i + 1 < nc => /\ TileAt(ts, i, j).x1 = TileAt(ts, i + 1, j).x0
                                   /\ TileAt(ts, i, j).y0 = TileAt(ts, i + 1, j).y0
                  /\ j + 1 < nr => /\ TileAt(ts, i, j).y1 = TileAt(ts, i, j + 1).y0
                                   /\ TileAt(ts, i, j).x0 = TileAt(ts, i, j + 1).x0

\* A grid with more columns than rows, and more than one of each.
C24_Witness ==
    /\ Decomposed /\ tout.err = "none"
    /\ Cardinality(Rows(tout.tiles)) >= 2
    /\ Cardinality(Columns(tout.tiles)) > Cardinality(Rows(tout.tiles))
    /\ \E n \in DOMAIN tout.tiles :
          tout.tiles[n].x0 < tout.tiles[n].x1 /\ tout.tiles[n].label = <<1, 1>>

\* C33: every tile bbox_decompose returns for a valid bbox has a pixel width
\* and a pixel height of at least one and a box that extends on both axes,
\* also when the pixel width or height is a multiple of floor(sqrt(max_px)).
C33_NoEmptyTile ==
    (Decomposed /\ tout.err = "none" /\ ValidBbox(tin.bbox)) =>
        \A k \in DOMAIN tout.tiles :
            /\ tout.tiles[k].w >= 1
            /\ tout.tiles[k].h >= 1
            /\ tout.tiles[k].x0 < tout.tiles[k].x1
            /\ tout.tiles[k].y0 < tout.tiles[k].y1

(***************************************************************************)
(* create_request_key.                                                     *)
(*                                                                         *)
(* A string is the sequence of its character codes.  A mapping is the      *)
(* sequence of its (key, value) pairs in insertion order, with distinct    *)
(* keys.  hashlib.sha256 is taken to be injective: the key is the byte     *)
(* string that is hashed.  url_normalize is the library function: it       *)
(* lowercases the host and sorts the query parameters.                     *)
(***************************************************************************)
Methods == {GET, get, POST}

SchemeSep == <<104, 116, 116, 112, 58, 47, 47>>   \* "http://"
Hosts == {<<104>>, <<72>>}                        \* "h", "H"
PathP == <<47, 112>>                              \* "/p"

ka == <<97>>
kb == <<98>>
v1 == <<49>>
v2 == <<50>>

Urls == [host : Hosts, path : {PathP}, query : {<<>>, << <<ka, v1>> >>}]

ParamSets ==
    { <<>>, << <<ka, v1>>, <<kb, v2>> >>, << <<kb, v2>>, <<ka, v1>> >>,
      << <<ka, v2>> >>, << <<kb, v2>> >> }

\* A body (data or json): None, a mapping, or a string.
NoBody == [kind |-> "none", items |-> <<>>, text |-> <<>>]
MapBody(m) == [kind |-> "map", items |-> m, text |-> <<>>]
StrBody(t) == [kind |-> "str", items |-> <<>>, text |-> t]

DataSet ==
    { NoBody, MapBody(<< <<ka, v1>>, <<kb, v2>> >>),
      MapBody(<< <<kb, v2>>, <<ka, v1>> >>),
      StrBody(<<97, 61, 49, 38, 98, 61, 50>>) }    \* "a=1&b=2"

JsonSet ==
    { NoBody, MapBody(<< <<ka, v1>>, <<kb, v2>> >>),
      MapBody(<< <<kb, v2>>, <<ka, v1>> >>) }

Requests ==
    [method : Methods, url : Urls, params : ParamSets, data : DataSet,
     json : JsonSet]

\* The order of Python strings.
StrLess(a, b) ==
    \E i \in 1 .. (Len(b)) :
        /\ \A j \in 1 .. (i - 1) : j <= Len(a) /\ a[j] = b[j]
        /\ (i > Len(a) \/ (i <= Len(a) /\ a[i] < b[i]))
        /\ i - 1 <= Len(a)

StrLeq(a, b) == a = b \/ StrLess(a, b)

\* The order of Python tuples (key, value).
ItemLeq(p, q) == StrLess(p[1], q[1]) \/ (p[1] = q[1] /\ StrLeq(p[2], q[2]))

\* sorted() on strings: insertion into a sorted sequence.
RECURSIVE SortStrs(_)
SortStrs(s) ==
    IF s = <<>> THEN <<>>
    ELSE LET rest == SortStrs(Tail(s))
             k == Cardinality({ i \in DOMAIN rest : StrLeq(rest[i], s[1]) })
         IN  SubSeq(rest, 1, k) \o <<s[1]>> \o SubSeq(rest, k + 1, Len(rest))

\* sorted() on the items of a mapping.
RECURSIVE SortItems(_)
SortItems(s) ==
    IF s = <<>> THEN <<>>
    ELSE LET rest == SortItems(Tail(s))
             k == Cardinality({ i \in DOMAIN rest : ItemLeq(rest[i], s[1]) })
         IN  SubSeq(rest, 1, k) \o <<s[1]>> \o SubSeq(rest, k + 1, Len(rest))

\* "&".join(parts)
RECURSIVE JoinAmp(_)
JoinAmp(parts) ==
    IF parts = <<>> THEN <<>>
    ELSE IF Len(parts) = 1 THEN parts[1]
    ELSE parts[1] \o <<38>> \o JoinAmp(Tail(parts))

\* f"{k}={v}"
KeyEqValue(item) == item[1] \o <<61>> \o item[2]

KeyEqValues(items) == [i \in DOMAIN items |-> KeyEqValue(items[i])]

\* url_normalize (called at line 51) on the URL as a string.
UrlNormalize(u) ==
    SchemeSep \o Lower(u.host) \o u.path
        \o (IF u.query = <<>> THEN <<>>
            ELSE <<63>> \o JoinAmp(SortStrs(KeyEqValues(u.query))))

\* _normalize_url_params, lines 39-51: the parameters of the URL's query
\* string, then the params argument, then url_normalize.
NormalizeUrlParams(url, params) ==
    UrlNormalize(IF params /= <<>>
                 THEN [url EXCEPT !.query = url.query \o params]
                 ELSE url)

\* _encode_dict, lines 54-62
EncodeDictUnsorted(d) ==
    IF d.kind = "none" \/ (d.kind = "map" /\ d.items = <<>>)
           \/ (d.kind = "str" /\ d.text = <<>>) THEN <<>>
    ELSE IF d.kind = "str" THEN d.text
    ELSE JoinAmp(KeyEqValues(d.items))

EncodeDict(d) ==
    IF d.kind = "none" \/ (d.kind = "map" /\ d.items = <<>>)
           \/ (d.kind = "str" /\ d.text = <<>>) THEN <<>>
    ELSE IF d.kind = "str" THEN d.text
    ELSE JoinAmp(KeyEqValues(SortItems(d.items)))

\* create_request_key hashing the method as it was given.
CreateRequestKeyRawMethod(r) ==
    r.method \o NormalizeUrlParams(r.url, r.params)
        \o EncodeDict(r.data) \o EncodeDict(r.json)

\* create_request_key, lines 65-83
CreateRequestKey(r) ==
    Upper(r.method) \o NormalizeUrlParams(r.url, r.params)
        \o EncodeDict(r.data) \o EncodeDict(r.json)

\* The number of arguments in which two requests differ.
Differences(r, q) ==
    Cardinality({ f \in {"method", "url", "params", "data", "json"} :
                    r[f] /= q[f] })

InitKey ==
    /\ req1 \in Requests
    /\ req2 \in Requests
    /\ Differences(req1, req2) <= 2
    /\ key1 = <<>>
    /\ key2 = <<>>
    /\ keypc = "ready"
    /\ DLIdle
    /\ TileIdle
    /\ WmsIdle
    /\ CliIdle
    /\ RaceIdle
    /\ FlwIdle
    /\ FlIdle
    /\ AoiIdle
    /\ FetchIdle

MakeKeys ==
    /\ keypc = "ready"
    /\ key1' = CreateRequestKey(req1)
    /\ key2' = CreateRequestKey(req2)
    /\ keypc' = "done"
    /\ UNCHANGED <<restKey, req1, req2>>

NextKey == MakeKeys

SpecKey == InitKey /\ [][NextKey]_vars

(***************************************************************************)
(* Properties of create_request_key, checked under SpecKey.                *)
(***************************************************************************)
ItemSet(m) == { m[i] : i \in DOMAIN m }

\* The same mapping up to the insertion order of its pairs.
SameMapping(m, n) == Len(m) = Len(n) /\ ItemSet(m) = ItemSet(n)

SameBody(d, e) ==
    d.kind = e.kind /\ d.text = e.text /\ SameMapping(d.items, e.items)

\* C10: two requests with the same method and URL whose query parameters and
\* whose mapping bodies (data, json) hold the same key/value pairs, in any
\* insertion order, get the same key from create_request_key.
C10_KeyIgnoresInsertionOrder ==
    ( /\ keypc = "done"
      /\ req1.method = req2.method
      /\ req1.url = req2.url
      /\ SameMapping(req1.params, req2.params)
      /\ SameBody(req1.data, req2.data)
      /\ SameBody(req1.json, req2.json) ) => key1 = key2

\* Both the query parameters and the data mapping were given in two orders.
C10_Witness ==
    /\ keypc = "done"
    /\ req1.method = req2.method /\ req1.url = req2.url
    /\ req1.params /= req2.params /\ SameMapping(req1.params, req2.params)
    /\ req1.data /= req2.data /\ SameBody(req1.data, req2.data)
    /\ req1.json = req2.json
    /\ key1 = key2

\* The two requests are identical but for the method argument.
OnlyMethodDiffers ==
    /\ req1.method /= req2.method
    /\ req1.url = req2.url /\ req1.params = req2.params
    /\ req1.data = req2.data /\ req1.json = req2.json

\* C11: of two requests that differ only in the method, the keys differ when
\* the methods differ as HTTP methods (GET, POST) and are equal when the
\* methods differ only in letter case (GET, get).
C11_KeyDependsOnMethod ==
    (keypc = "done" /\ OnlyMethodDiffers) =>
        (key1 = key2 <=> Upper(req1.method) = Upper(req2.method))

\* A request was keyed as GET and as POST.
C11_Witness ==
    /\ keypc = "done" /\ OnlyMethodDiffers
    /\ req1.method = GET /\ req2.method = POST
    /\ key1 /= key2

\* A request was keyed as GET and as get.
C11_WitnessCase ==
    /\ keypc = "done" /\ OnlyMethodDiffers
    /\ req1.method = GET /\ req2.method = get
    /\ key1 = key2

\* The keys of a mapping.
KeysOf(m) == { m[i][1] : i \in DOMAIN m }

\* The pairs of q whose key is not a key of p, then the pairs of p: the
\* merge in which p takes precedence.
MergeWithPrecedence(q, p) ==
    LET keep == { i \in DOMAIN q : q[i][1] \notin KeysOf(p) }
        RECURSIVE Pick(_)
        Pick(i) == IF i > Len(q) THEN <<>>
                   ELSE (IF i \in keep THEN <<q[i]>> ELSE <<>>) \o Pick(i + 1)
    IN  Pick(1) \o p

\* C12: the canonical URL that is hashed carries the parameters embedded in
\* the URL merged with the params argument, and for a key present in both
\* only the value of the params argument.
C12_ExplicitParamWins ==
    keypc = "done" =>
        key1 = Upper(req1.method)
                 \o UrlNormalize([req1.url EXCEPT
                        !.query = MergeWithPrecedence(req1.url.query,
                                                      req1.params)])
                 \o EncodeDict(req1.data) \o EncodeDict(req1.json)

\* What a request asks for, once normalized: the host without letter case,
\* the path, the query parameters of the URL and of params in sorted order,
\* and the body that is sent: data as form fields (a mapping in any
\* insertion order, or the string given), json as a JSON object.
SentTo(r) ==
    [host  |-> Lower(r.url.host),
     path  |-> r.url.path,
     query |-> SortStrs(KeyEqValues(r.url.query \o r.params))]

SentBody(r) ==
    [form |-> IF r.data.kind = "map"
              THEN JoinAmp(KeyEqValues(SortItems(r.data.items)))
              ELSE r.data.text,
     json |-> [given |-> r.json.kind /= "none",
               object |-> SortItems(r.json.items)]]

\* C25: two requests that differ, after normalization, in the host, the
\* path, the query parameters or the content of the body get different keys.
C25_KeySeparatesRequests ==
    ( /\ keypc = "done"
      /\ (SentTo(req1) /= SentTo(req2) \/ SentBody(req1) /= SentBody(req2)) )
        => key1 /= key2

(***************************************************************************)
(* wms_getmap, lines 504-560.                                              *)
(*                                                                         *)
(* The bbox is given in the CRS of the service, so that the reprojection   *)
(* of line 510 leaves it as it is.  A coordinate of a payload is the pair  *)
(* <<numerator, denominator>>; the rounding to six digits of line 540 is   *)
(* not modelled.                                                           *)
(***************************************************************************)
LayerArgs ==
    { [isStr |-> TRUE, items |-> <<"a">>],
      [isStr |-> FALSE, items |-> <<>>],
      [isStr |-> FALSE, items |-> <<"a">>],
      [isStr |-> FALSE, items |-> <<"a", "b">>] }

WmsInputs ==
    [layers : LayerArgs,
     tile : { a \in TileInputs : a.bbox[1] = 0 /\ a.bbox[2] = 0 },
     wms_version : {"1.1.1", "1.3.0"},
     is_geographic : BOOLEAN,
     always_xy : BOOLEAN]

\* _get_payloads, lines 531-544: the name and the payload of one layer and
\* one tile
SwapAxesAnyVersion(a) == a.is_geographic /\ ~a.always_xy

SwapAxes(a) == a.wms_version /= "1.1.1" /\ a.is_geographic /\ ~a.always_xy

GetPayloads(a, lyr, bnds) ==
    LET xy == << <<bnds.x0, bnds.xden>>, <<bnds.y0, bnds.yden>>,
                 <<bnds.x1, bnds.xden>>, <<bnds.y1, bnds.yden>> >>
        yx == << xy[2], xy[1], xy[4], xy[3] >>
    IN  [name |-> <<lyr, bnds.label>>,
         payload |-> [layers |-> lyr,
                      bbox |-> IF SwapAxes(a) THEN yx ELSE xy,
                      width |-> bnds.w, height |-> bnds.h,
                      version |-> a.wms_version,
                      crskey |-> IF a.wms_version = "1.1.1" THEN "srs" ELSE "crs"]]

\* line 546: itertools.product(layers, bounds), the layers outermost
LayerTiles(a, layers, bounds) ==
    [n \in 1 .. (Len(layers) * Len(bounds)) |->
        GetPayloads(a, layers[((n - 1) \div Len(bounds)) + 1],
                    bounds[((n - 1) % Len(bounds)) + 1])]

NoWms(e) == [err |-> e, bounds |-> <<>>, names |-> <<>>, payloads |-> <<>>,
             dirMade |-> FALSE, paths |-> NoValue]

(***************************************************************************)
(* wms_getmap.  bbox_decompose may raise (line 511); the zip of no pair    *)
(* cannot be unpacked into two names (line 547); the directory is made     *)
(* (line 552); and line 553 calls utils.streaming_download, where utils is *)
(* not a name of the module clients: the call raises NameError before      *)
(* any argument is evaluated.                                              *)
(***************************************************************************)
WmsGetMapResult(a) ==
    LET dec == BboxDecompose(a.tile)
        lp  == LayerTiles(a, a.layers.items, dec.tiles)
    IN  IF dec.err /= "none" THEN NoWms(dec.err)
        ELSE IF lp = <<>> THEN NoWms("ValueError")
        ELSE [err |-> "NameError",
              bounds |-> dec.tiles,
              names |-> [n \in DOMAIN lp |-> lp[n].name],
              payloads |-> [n \in DOMAIN lp |-> lp[n].payload],
              dirMade |-> TRUE,
              paths |-> NoValue]

InitWms ==
    /\ win \in WmsInputs
    /\ wout = <<>>
    /\ wmspc = "ready"
    /\ DLIdle
    /\ TileIdle
    /\ KeyIdle
    /\ CliIdle
    /\ RaceIdle
    /\ FlwIdle
    /\ FlIdle
    /\ AoiIdle
    /\ FetchIdle

WmsGetMap ==
    /\ wmspc = "ready"
    /\ wout' = WmsGetMapResult(win)
    /\ wmspc' = "done"
    /\ UNCHANGED <<restWms, win>>

NextWms == WmsGetMap

SpecWms == InitWms /\ [][NextWms]_vars

(***************************************************************************)
(* Properties of wms_getmap, checked under SpecWms.                        *)
(***************************************************************************)
\* The call was made on at least one layer and a bbox that bbox_decompose
\* splits into tiles.
WmsCallable ==
    /\ wmspc = "done"
    /\ win.layers.items /= <<>>
    /\ BboxDecompose(win.tile).err = "none"

\* The layer and the tile of the n-th of the pairs of ls and tiles, the
\* layers outermost.
PairLayer(ls, tiles, n) == ls[((n - 1) \div Len(tiles)) + 1]
PairTile(ls, tiles, n) == tiles[((n - 1) % Len(tiles)) + 1]

\* C17: wms_getmap builds one request per (layer, tile) pair, the layers
\* outermost and the tiles in the order of bbox_decompose, and returns one
\* destination path per pair.
C17_OneRequestPerLayerTile ==
    WmsCallable =>
        LET ls == win.layers.items
            tiles == BboxDecompose(win.tile).tiles
        IN  /\ Len(wout.payloads) = Len(ls) * Len(tiles)
            /\ \A n \in DOMAIN wout.payloads :
                  /\ wout.payloads[n].layers = PairLayer(ls, tiles, n)
                  /\ wout.payloads[n].width = PairTile(ls, tiles, n).w
                  /\ wout.payloads[n].height = PairTile(ls, tiles, n).h
            /\ wout.err = "none"
            /\ Len(wout.paths) = Len(ls) * Len(tiles)

\* C18: the destination of every (layer, tile) pair that wms_getmap returns
\* is the one named from the layer and the label of the tile.
C18_DestinationsFromLayerAndLabel ==
    WmsCallable =>
        LET ls == win.layers.items
            tiles == BboxDecompose(win.tile).tiles
        IN  /\ wout.err = "none"
            /\ Len(wout.paths) = Len(wout.names)
            /\ \A n \in DOMAIN wout.names :
                  /\ wout.names[n] = <<PairLayer(ls, tiles, n),
                                       PairTile(ls, tiles, n).label>>
                  /\ wout.paths[n] = wout.names[n]

\* The bbox of a tile in the two axis orders.
WestSouthEastNorth(t) ==
    << <<t.x0, t.xden>>, <<t.y0, t.yden>>, <<t.x1, t.xden>>, <<t.y1, t.yden>> >>

SouthWestNorthEast(t) ==
    << <<t.y0, t.yden>>, <<t.x0, t.xden>>, <<t.y1, t.yden>>, <<t.x1, t.xden>> >>

\* C26: the bbox of every payload wms_getmap builds is the bbox of its tile
\* as (south, west, north, east) when the CRS is geographic, always_xy is
\* false and the WMS version is not 1.1.1, and as (west, south, east, north)
\* in every other case.
C26_AxisOrderOfPayloads ==
    (wmspc = "done" /\ wout.payloads /= <<>>) =>
        LET ls == win.layers.items
            tiles == wout.bounds
        IN  \A n \in DOMAIN wout.payloads :
                wout.payloads[n].bbox =
                    IF /\ win.is_geographic
                       /\ ~win.always_xy
                       /\ win.wms_version /= "1.1.1"
                    THEN SouthWestNorthEast(PairTile(ls, tiles, n))
                    ELSE WestSouthEastNorth(PairTile(ls, tiles, n))

\* A payload was built with the axes swapped, for a tile whose two orders
\* differ.
C26_Witness ==
    /\ wmspc = "done"
    /\ win.is_geographic /\ ~win.always_xy /\ win.wms_version = "1.3.0"
    /\ \E n \in DOMAIN wout.payloads :
          /\ wout.payloads[n].bbox[3] /= wout.payloads[n].bbox[4]
          /\ wout.payloads[n].bbox[3][1] > 0 /\ wout.payloads[n].bbox[4][1] > 0

\* A payload was built with the axes as given although the CRS is
\* geographic: the version is 1.1.1.
C26_WitnessKept ==
    /\ wmspc = "done"
    /\ win.is_geographic /\ ~win.always_xy /\ win.wms_version = "1.1.1"
    /\ wout.payloads /= <<>>
    /\ wout.payloads[1].bbox = WestSouthEastNorth(wout.bounds[1])

(***************************************************************************)
(* The command line (src/src/hysetter/cli.py) on a configuration file      *)
(* (src/src/hysetter/hysetter.py).                                         *)
(*                                                                         *)
(* A selector of the AOI is "none" (absent), "falsy" (an empty list, the   *)
(* integer 0, an empty string) or "given".  The configuration has the      *)
(* types pydantic asks for.  The steps of get_data are represented by      *)
(* get_aoi, get_forcing (topo, soil, nlcd, streamflow and rasters read and *)
(* write the same way) and get_nid.  The services answer the AOI request;  *)
(* a data step may fail to get its data, which the step catches.           *)
(***************************************************************************)
MaxRuns == 2   \* runs of the CLI on the same configuration

Selectors == {"huc_ids", "nhdv2_ids", "gagesii_basins", "mainstem_main", "geometry_file"}

SelectorValues == {"none", "falsy", "given"}

Configs ==
    [aoi : [Selectors -> SelectorValues],
     nhdv2_flowlines : BOOLEAN,
     forcing : BOOLEAN,
     nid : BOOLEAN,
     overwrite : BOOLEAN]

\* AOI._check_exclusive_options, lines 144-168 of hysetter.py: the options
\* that are truthy, which must be exactly one
ProvidedOptionsLegacy(aoi) ==
    { o \in Selectors \ {"mainstem_main"} : aoi[o] = "given" }

ProvidedOptions(aoi) == { o \in Selectors : aoi[o] = "given" }

AoiAccepted(aoi) == Cardinality(ProvidedOptions(aoi)) = 1

\* The paths under the data directory that the model follows.
ProjectDir == "project"
AoiParquet == "project/aoi.parquet"

\* cli.py lines 72-76: sys.exit(1) in the except clause of get_data, and the
\* exit code 0 of a command that returns
ExitCodeIgnoringErrors(raised) == 0

ExitCode(raised) == IF raised THEN 1 ELSE 0

\* Path.mkdir(parents=True) of a directory of the project
WithDir(fs, d) == fs \cup {"data_dir", ProjectDir, d}

InitCli ==
    /\ conf \in Configs
    /\ cfs = {}
    /\ clipc = "idle"
    /\ cliow = FALSE
    /\ crun = 0
    /\ cexit = -1
    /\ cerr = "none"
    /\ prevExit = -1
    /\ DLIdle
    /\ TileIdle
    /\ KeyIdle
    /\ WmsIdle
    /\ RaceIdle
    /\ FlwIdle
    /\ FlIdle
    /\ AoiIdle
    /\ FetchIdle

\* cli is invoked, with or without --overwrite.
CliStart ==
    /\ clipc \in {"idle", "exited"}
    /\ crun < MaxRuns
    /\ crun' = crun + 1
    /\ cliow' \in BOOLEAN
    /\ prevExit' = cexit
    /\ cexit' = -1
    /\ cerr' = "none"
    /\ clipc' = "read_config"
    /\ UNCHANGED <<restCli, conf, cfs>>

\* cli.py line 67 and Config.__init__, lines 552-572: the configuration is
\* validated, the project directory is made, and removed again when the
\* configuration says overwrite.  A rejected configuration is an exception
\* that cli does not catch.
ReadConfig ==
    /\ clipc = "read_config"
    /\ IF ~AoiAccepted(conf.aoi)
       THEN /\ clipc' = "exited"
            /\ cexit' = 1
            /\ cerr' = "ValueError"
            /\ cfs' = cfs
       ELSE /\ clipc' = "remove"
            /\ cfs' = IF conf.overwrite THEN {"data_dir"}
                      ELSE WithDir(cfs, ProjectDir)
            /\ UNCHANGED <<cexit, cerr>>
    /\ UNCHANGED <<restCli, conf, cliow, crun, prevExit>>

\* cli.py lines 69-71: shutil.rmtree(cfg.project.data_dir), the directory
\* that holds the project directory
RemoveData ==
    /\ clipc = "remove"
    /\ cfs' = IF cliow THEN {} ELSE cfs
    /\ clipc' = "get_aoi"
    /\ UNCHANGED <<restCli, conf, cliow, crun, cexit, cerr, prevExit>>

\* get_aoi, aoi.py lines 170-245.  An AOI that is not on disk is fetched
\* and written with to_parquet, which needs the project directory; the
\* mainstem branch returns without writing it.  The flowlines go into a
\* directory that is made with its parents.
GetAoi ==
    /\ clipc = "get_aoi"
    /\ IF AoiParquet \in cfs
       THEN /\ cfs' = IF conf.nhdv2_flowlines
                      THEN WithDir(cfs, "project/nhdv2_flowlines")
                               \cup {"project/nhdv2_flowlines/0"}
                      ELSE cfs
            /\ clipc' = "get_forcing"
            /\ UNCHANGED <<cexit, cerr>>
       ELSE IF conf.aoi["mainstem_main"] = "given"
       THEN /\ cfs' = IF conf.nhdv2_flowlines
                      THEN WithDir(cfs, "project/nhdv2_flowlines")
                               \cup {"project/nhdv2_flowlines/0"}
                      ELSE cfs
            /\ clipc' = "get_forcing"
            /\ UNCHANGED <<cexit, cerr>>
       ELSE IF ProjectDir \notin cfs
       THEN /\ clipc' = "exited"
            /\ cexit' = ExitCode(TRUE)
            /\ cerr' = "OSError"
            /\ cfs' = cfs
       ELSE /\ cfs' = IF conf.nhdv2_flowlines
                      THEN WithDir(cfs, "project/nhdv2_flowlines")
                              \cup {AoiParquet, "project/nhdv2_flowlines/0"}
                      ELSE cfs \cup {AoiParquet}
            /\ clipc' = "get_forcing"
            /\ UNCHANGED <<cexit, cerr>>
    /\ UNCHANGED <<restCli, conf, cliow, crun, prevExit>>

\* get_forcing, forcing.py lines 37-72: the AOI is read from disk, the
\* directory is made, and the file of each geometry is written unless it
\* exists or the request fails.
GetForcing ==
    /\ clipc = "get_forcing"
    /\ IF ~conf.forcing
       THEN /\ clipc' = "get_nid"
            /\ UNCHANGED <<cfs, cexit, cerr>>
       ELSE IF AoiParquet \notin cfs
       THEN /\ clipc' = "exited"
            /\ cexit' = ExitCode(TRUE)
            /\ cerr' = "FileNotFoundError"
            /\ cfs' = cfs
       ELSE /\ \E got \in BOOLEAN :
                  cfs' = WithDir(cfs, "project/forcing")
                           \cup (IF got THEN {"project/forcing/0"} ELSE {})
            /\ clipc' = "get_nid"
            /\ UNCHANGED <<cexit, cerr>>
    /\ UNCHANGED <<restCli, conf, cliow, crun, prevExit>>

\* get_nid, nid.py lines 33-56: the directory is made first, then the AOI
\* is read.  cli.py lines 72-76: the run ends with exit code 0, or 1 after
\* an exception of get_data.
GetNid ==
    /\ clipc = "get_nid"
    /\ IF ~conf.nid
       THEN /\ cexit' = ExitCode(FALSE)
            /\ UNCHANGED <<cfs, cerr>>
       ELSE IF AoiParquet \notin cfs
       THEN /\ cexit' = ExitCode(TRUE)
            /\ cerr' = "FileNotFoundError"
            /\ cfs' = WithDir(cfs, "project/nid")
       ELSE /\ \E got \in BOOLEAN :
                  cfs' = WithDir(cfs, "project/nid")
                           \cup (IF got THEN {"project/nid/0"} ELSE {})
            /\ cexit' = ExitCode(FALSE)
            /\ UNCHANGED cerr
    /\ clipc' = "exited"
    /\ UNCHANGED <<restCli, conf, cliow, crun, prevExit>>

NextCli ==
    \/ CliStart
    \/ ReadConfig
    \/ RemoveData
    \/ GetAoi
    \/ GetForcing
    \/ GetNid

SpecCli == InitCli /\ [][NextCli]_vars

(***************************************************************************)
(* Properties of the command line, checked under SpecCli.                  *)
(***************************************************************************)
\* C15: a run with --overwrite that follows a run that ended with exit code
\* 0 ends with exit code 0, with the AOI fetched again.
C15_OverwriteRunSucceeds ==
    (clipc = "exited" /\ crun >= 2 /\ prevExit = 0 /\ cliow) =>
        /\ cexit = 0
        /\ (conf.aoi["mainstem_main"] /= "given" => AoiParquet \in cfs)

\* A selector is provided when it is a list with an element, a non-empty
\* string, or an integer other than 0.
Provided(v) == v \notin {"none", "falsy"}

C16_WitnessRejected ==
    /\ clipc = "exited" /\ cerr = "ValueError"
    /\ conf.aoi["huc_ids"] = "given" /\ conf.aoi["mainstem_main"] = "given"

\* C36: whenever get_data invokes a dataset fetcher, that is whenever
\* get_aoi has returned normally, the AOI parquet file exists.
C36_AoiParquetBeforeFetchers ==
    clipc \in {"get_forcing", "get_nid"} => AoiParquet \in cfs

\* The exceptions that get_data raises, and the one read_config raises.
GetDataErrors == {"OSError", "FileNotFoundError"}

\* C38, as stated: the exit code is 1 exactly when get_data raised and 0
\* when it returned.
C38_ExitOneIffGetDataRaised ==
    clipc = "exited" =>
        /\ cexit = 1 <=> cerr \in GetDataErrors
        /\ cexit = 0 <=> cerr = "none"

\* C38, amended: the exit code is 1 exactly when read_config or get_data
\* raised, and 0 exactly when get_data returned; a geometry whose data a
\* fetcher failed to get leaves the exit code at 0.
C38_ExitOneIffRaised ==
    clipc = "exited" =>
        /\ cexit \in {0, 1}
        /\ cexit = 1 <=> cerr \in GetDataErrors \cup {"ValueError"}
        /\ cexit = 0 <=> cerr = "none"
        /\ cerr = "ValueError" <=> ~AoiAccepted(conf.aoi)

\* get_data returned although get_forcing failed to get its one geometry.
C38_Witness ==
    /\ clipc = "exited" /\ cexit = 0
    /\ conf.forcing
    /\ "project/forcing" \in cfs
    /\ "project/forcing/0" \notin cfs

\* get_data raised and the exit code is 1.
C38_WitnessRaised ==
    clipc = "exited" /\ cexit = 1 /\ cerr = "FileNotFoundError"

(***************************************************************************)
(* streaming_download on a batch whose destinations may coincide.          *)
(*                                                                         *)
(* _prepare_requests_args, lines 207-221, gives task t the path            *)
(* root_dir/<request key> when fnames is None and Path(fnames[t])          *)
(* otherwise; neither branch compares the paths of two tasks.  Both        *)
(* branches build a generator: the path of task t is computed when joblib  *)
(* takes task t from the generator expression of lines 350-351, which it   *)
(* does as the pool has room, one task at a time with one worker and up to *)
(* twice the number of workers ahead of the tasks that ended otherwise.    *)
(* The kwds of one task of the batch may hold the key "headers", which     *)
(* line 197 accepts and create_request_key has no parameter for.  _download*)
(* is taken one file operation at a time: the size check and open("wb"),   *)
(* which truncates, then one write per chunk at the offset of the thread's *)
(* own file object, then the close.  Two threads that have the same file   *)
(* open race on its content: every interleaving of their writes is a run.  *)
(***************************************************************************)
MaxRaceTasks == 2   \* tasks of the batch

RaceUrl == [host |-> <<104>>, path |-> PathP, query |-> <<>>]

RaceBody == MapBody(<< <<ka, v1>> >>)

\* The request of one task: POST to the URL with the kwds data=..., json=...
RaceRequest(d, j) ==
    [method |-> POST, url |-> RaceUrl, params |-> <<>>, data |-> d, json |-> j]

RaceRequests ==
    { RaceRequest(RaceBody, NoBody), RaceRequest(NoBody, RaceBody),
      RaceRequest(NoBody, NoBody) }

\* What the server answers: two chunks that tell the requests apart.
RaceResponse(r) ==
    LET c == IF r.data /= NoBody THEN 1 ELSE IF r.json /= NoBody THEN 2 ELSE 3
    IN  [status |-> 200, cl |-> 2, body |-> <<c, c>>]

RaceNames == {<<97>>, <<98>>}    \* "a", "b"

RaceTasks == 1 .. Len(rin.reqs)

\* _prepare_requests_args, lines 213-216: create_request_key(method, u, **p)
\* raises TypeError when p holds "headers"
KeyRaises(a, t) == ~a.given /\ a.hdr = t

\* _prepare_requests_args, lines 207-221: the path of task t
Destination(a, t) ==
    IF ~a.given
    THEN [dir |-> "root_dir", name |-> CreateRequestKey(a.reqs[t])]
    ELSE [dir |-> "", name |-> a.fnames[t]]

\* joblib.Parallel(n_jobs=n_jobs, prefer="threads"), line 349: how many tasks
\* the pool takes from the generator ahead of the tasks that ended
PreDispatch(nw) == IF nw = 1 THEN 1 ELSE 2 * nw

RacePaths ==
    { [dir |-> "root_dir", name |-> CreateRequestKey(r)] : r \in RaceRequests }
        \cup { [dir |-> "", name |-> n] : n \in RaceNames }

\* file.write at offset k of a file that holds c: bytes past the end of the
\* file leave a hole of zeros.
WriteAt(c, k, b) ==
    IF k < Len(c) THEN [c EXCEPT ![k + 1] = b]
    ELSE c \o [i \in 1 .. (k - Len(c)) |-> 0] \o <<b>>

\* The tasks a worker of the pool is running.
RaceBusy == { t \in RaceTasks : rpc[t] \in {"requested", "writing"} }

\* The tasks whose _download returned.
RaceEnded == { t \in RaceTasks : rpc[t] \in {"done", "skipped"} }

InitRace ==
    /\ \E n \in 2 .. MaxRaceTasks :
         rin \in [reqs : [1 .. n -> RaceRequests], given : BOOLEAN,
                  fnames : [1 .. n -> RaceNames], n_jobs : 1 .. MaxJobs,
                  hdr : 0 .. n]
    /\ rfiles = <<>>
    /\ rpc = [t \in RaceTasks |-> "pending"]
    /\ rdisk = [p \in RacePaths |-> NoFile]
    /\ rpos = [t \in RaceTasks |-> 0]
    /\ racepc = "ready"
    /\ DLIdle
    /\ TileIdle
    /\ KeyIdle
    /\ WmsIdle
    /\ CliIdle
    /\ FlwIdle
    /\ FlIdle
    /\ AoiIdle
    /\ FetchIdle

\* streaming_download, lines 343-348: the arguments are checked and the
\* generator of the destinations is made.
RaceStart ==
    /\ racepc = "ready"
    /\ racepc' = "running"
    /\ UNCHANGED <<restRace, rin, rfiles, rpc, rdisk, rpos>>

\* streaming_download, lines 350-351: joblib takes the next task from the
\* generator expression, which computes the destination of that task.
RaceConsume ==
    /\ racepc = "running"
    /\ Len(rfiles) < Len(rin.reqs)
    /\ Len(rfiles) - Cardinality(RaceEnded)
          < PreDispatch(NWorkers(rin.n_jobs, Len(rin.reqs)))
    /\ IF KeyRaises(rin, Len(rfiles) + 1)
       THEN /\ racepc' = "raised"
            /\ UNCHANGED rfiles
       ELSE /\ rfiles' = Append(rfiles, Destination(rin, Len(rfiles) + 1))
            /\ UNCHANGED racepc
    /\ UNCHANGED <<restRace, rin, rpc, rdisk, rpos>>

\* A free worker of the pool takes the next task; client.stream, line 234.
RaceDispatch(t) ==
    /\ racepc = "running"
    /\ rpc[t] = "pending"
    /\ t <= Len(rfiles)
    /\ \A u \in RaceTasks : u < t => rpc[u] /= "pending"
    /\ Cardinality(RaceBusy) < NWorkers(rin.n_jobs, Len(rin.reqs))
    /\ rpc' = [rpc EXCEPT ![t] = "requested"]
    /\ UNCHANGED <<restRace, rin, rfiles, rdisk, rpos, racepc>>

\* _download, lines 235-238: the size check, then open("wb").
RaceOpen(t) ==
    /\ rpc[t] = "requested"
    /\ IF NeedsWrite(rdisk, rfiles[t], RaceResponse(rin.reqs[t]))
       THEN /\ rdisk' = [rdisk EXCEPT ![rfiles[t]] = File(<<>>)]
            /\ rpc' = [rpc EXCEPT ![t] = "writing"]
       ELSE /\ rpc' = [rpc EXCEPT ![t] = "skipped"]
            /\ UNCHANGED rdisk
    /\ UNCHANGED <<restRace, rin, rfiles, rpos, racepc>>

\* _download, line 239: writelines writes the next chunk.
RaceWrite(t) ==
    /\ rpc[t] = "writing"
    /\ rpos[t] < Len(RaceResponse(rin.reqs[t]).body)
    /\ rdisk' = [rdisk EXCEPT ![rfiles[t]] =
                   File(WriteAt(@.data, rpos[t],
                                RaceResponse(rin.reqs[t]).body[rpos[t] + 1]))]
    /\ rpos' = [rpos EXCEPT ![t] = @ + 1]
    /\ UNCHANGED <<restRace, rin, rfiles, rpc, racepc>>

\* _download, lines 238-240: the with block closes the file, fname is returned.
RaceClose(t) ==
    /\ rpc[t] = "writing"
    /\ rpos[t] = Len(RaceResponse(rin.reqs[t]).body)
    /\ rpc' = [rpc EXCEPT ![t] = "done"]
    /\ UNCHANGED <<restRace, rin, rfiles, rdisk, rpos, racepc>>

\* streaming_download, lines 349-357
RaceReturn ==
    /\ racepc = "running"
    /\ \A t \in RaceTasks : rpc[t] \in {"done", "skipped"}
    /\ racepc' = "returned"
    /\ UNCHANGED <<restRace, rin, rfiles, rpc, rdisk, rpos>>

NextRace ==
    \/ RaceStart
    \/ RaceConsume
    \/ \E t \in RaceTasks : RaceDispatch(t)
    \/ \E t \in RaceTasks : RaceOpen(t)
    \/ \E t \in RaceTasks : RaceWrite(t)
    \/ \E t \in RaceTasks : RaceClose(t)
    \/ RaceReturn

SpecRace == InitRace /\ [][NextRace]_vars

\* C21: within one batch no two tasks that run at the same time have the
\* same destination open for writing, whether the destinations come from
\* fnames or from the request keys.
C21_NoTwoWritersOfOneFile ==
    \A t, u \in RaceTasks :
        (t /= u /\ rpc[t] = "writing" /\ rpc[u] = "writing")
            => rfiles[t] /= rfiles[u]

\* The tasks whose HTTP request was sent.
RaceSent == { t \in RaceTasks : rpc[t] /= "pending" }

\* C35: in streaming_download the destinations of all the tasks of the batch
\* are computed, and an error in deriving one of them is raised, before the
\* first HTTP request of the batch is sent.
C35_DestinationsBeforeRequests ==
    /\ RaceSent /= {} => Len(rfiles) = Len(rin.reqs)
    /\ racepc = "raised" => RaceSent = {}

(***************************************************************************)
(* _get_flowlines (src/src/hysetter/aoi.py, lines 106-167): the loop over  *)
(* the geometries of the area of interest.  For geometry i it gets the     *)
(* flowlines, then the StreamCat attributes, then the NLDI attributes,     *)
(* each into a file of its own and each only when that file is missing.    *)
(*                                                                         *)
(* A file is the pair <<kind, i>>.  A request to a service succeeds or     *)
(* fails; the construction of the clients succeeds.  The exception that    *)
(* leaves _get_flowlines leaves get_aoi and get_data as well: neither      *)
(* catches it.                                                             *)
(***************************************************************************)
MaxGeoms == 2   \* geometries of the area of interest

FlwFiles(n) == { <<k, i>> : k \in {"flw", "sc", "nldi"}, i \in 0 .. (n - 1) }

FlwInputs ==
    UNION { [ngeom : {n}, sc_attrs : BOOLEAN, nldi_attrs : BOOLEAN,
             had : SUBSET FlwFiles(n)] : n \in 0 .. MaxGeoms }

InitFlw ==
    /\ flwin \in FlwInputs
    /\ flwfs = flwin.had
    /\ flwi = 0
    /\ flwpc = "ready"
    /\ wd = "None"
    /\ wdcalls = 0
    /\ reported = {}
    /\ DLIdle
    /\ TileIdle
    /\ KeyIdle
    /\ WmsIdle
    /\ CliIdle
    /\ RaceIdle
    /\ FlIdle
    /\ AoiIdle
    /\ FetchIdle

\* lines 117-133: wd = None, and the loop starts (or has nothing to do).
FlwStart ==
    /\ flwpc = "ready"
    /\ flwpc' = IF flwin.ngeom = 0 THEN "done" ELSE "top"
    /\ UNCHANGED <<restFlw, flwin, flwfs, flwi, wd, wdcalls, reported>>

\* lines 134-136: the first statement of the loop body.
LoopTop ==
    /\ flwpc = "top"
    /\ IF wd = "None"
       THEN wd' = "WaterData" /\ wdcalls' = wdcalls + 1
       ELSE UNCHANGED <<wd, wdcalls>>
    /\ flwpc' = "flw"
    /\ UNCHANGED <<restFlw, flwin, flwfs, flwi, reported>>

\* lines 137-144: the flowlines of geometry i.
GetFlowline(ok) ==
    /\ flwpc = "flw"
    /\ IF <<"flw", flwi>> \in flwfs
       THEN UNCHANGED <<flwfs, reported>>
       ELSE IF ok
            THEN flwfs' = flwfs \cup {<<"flw", flwi>>} /\ UNCHANGED reported
            ELSE reported' = reported \cup {<<"flw", flwi>>} /\ UNCHANGED flwfs
    /\ flwpc' = "sc"
    /\ UNCHANGED <<restFlw, flwin, flwi, wd, wdcalls>>

\* lines 146-155: the StreamCat attributes of geometry i.  The flowline
\* file is read at line 150, before the try block.
GetStreamCat(ok) ==
    /\ flwpc = "sc"
    /\ IF ~flwin.sc_attrs \/ <<"sc", flwi>> \in flwfs
       THEN flwpc' = "nldi" /\ UNCHANGED <<flwfs, reported>>
       ELSE IF <<"flw", flwi>> \notin flwfs
            THEN flwpc' = "raised" /\ UNCHANGED <<flwfs, reported>>
            ELSE /\ flwpc' = "nldi"
                 /\ IF ok
                    THEN flwfs' = flwfs \cup {<<"sc", flwi>>} /\ UNCHANGED reported
                    ELSE reported' = reported \cup {<<"sc", flwi>>} /\ UNCHANGED flwfs
    /\ UNCHANGED <<restFlw, flwin, flwi, wd, wdcalls>>

\* lines 157-167: the NLDI attributes of geometry i, the flowline file read
\* inside the try block; then the next geometry.
GetNldi(ok) ==
    /\ flwpc = "nldi"
    /\ IF ~flwin.nldi_attrs \/ <<"nldi", flwi>> \in flwfs
       THEN UNCHANGED <<flwfs, reported>>
       ELSE IF ok /\ <<"flw", flwi>> \in flwfs
            THEN flwfs' = flwfs \cup {<<"nldi", flwi>>} /\ UNCHANGED reported
            ELSE reported' = reported \cup {<<"nldi", flwi>>} /\ UNCHANGED flwfs
    /\ IF flwi + 1 < flwin.ngeom
       THEN flwi' = flwi + 1 /\ flwpc' = "top"
       ELSE flwi' = flwi /\ flwpc' = "done"
    /\ UNCHANGED <<restFlw, flwin, wd, wdcalls>>

NextFlw ==
    \/ FlwStart
    \/ LoopTop
    \/ \E ok \in BOOLEAN : GetFlowline(ok)
    \/ \E ok \in BOOLEAN : GetStreamCat(ok)
    \/ \E ok \in BOOLEAN : GetNldi(ok)

SpecFlw == InitFlw /\ [][NextFlw]_vars

\* The files _get_flowlines is asked to produce.
FlwWanted ==
    { f \in FlwFiles(flwin.ngeom) :
        \/ f[1] = "flw"
        \/ f[1] = "sc" /\ flwin.sc_attrs
        \/ f[1] = "nldi" /\ flwin.nldi_attrs }

\* C27 (the flowline loop): a failure to get the data of a geometry is
\* caught and reported and the loop goes on: _get_flowlines never raises,
\* and when it is done every file it was asked for is on disk or reported
\* as failed.
C27_FetchFailureNeverRaises ==
    /\ flwpc /= "raised"
    /\ flwpc = "done" => \A f \in FlwWanted : f \in flwfs \/ f \in reported

\* C28: WaterData is instantiated at most once, and only when the flowline
\* file of some geometry was missing when _get_flowlines was called.
C28_WaterDataOnlyWhenNeeded ==
    /\ wdcalls <= 1
    /\ wdcalls = 1 =>
          \E i \in 0 .. (flwin.ngeom - 1) : <<"flw", i>> \notin flwin.had

(***************************************************************************)
(* FileList (src/src/hysetter/hysetter.py, lines 376-450): a list of paths *)
(* with a parent directory.                                                *)
(*                                                                         *)
(* A path is absolute or relative and has a sequence of components; the    *)
(* empty string is the relative path without components.  The parent of    *)
(* the list is absolute (line 388 resolves it).                            *)
(***************************************************************************)
MaxLen   == 3   \* the list holds at most MaxLen elements
MaxBatch == 2   \* extend and slice assignment take at most MaxBatch values

Rel(parts) == [abs |-> FALSE, parts |-> parts]

FlParent == [abs |-> TRUE, parts |-> <<"project", "topo">>]

\* The values given to the list: "", "a", "../a" and "/x".
FlNames ==
    { Rel(<<>>), Rel(<<"a">>), Rel(<<"..", "a">>),
      [abs |-> TRUE, parts |-> <<"x">>] }

\* The values given to extend and to a slice assignment: "a" and "/x", up
\* to MaxBatch of them.
FlBatches ==
    UNION { [1 .. k -> {Rel(<<"a">>), [abs |-> TRUE, parts |-> <<"x">>]}] :
              k \in 0 .. MaxBatch }

\* pathlib: parent / file.  An absolute file replaces the parent; ".." is
\* kept as a component.
Join(p, f) == IF f.abs THEN f ELSE [abs |-> p.abs, parts |-> p.parts \o f.parts]

JoinAll(p, fs) == [k \in DOMAIN fs |-> Join(p, fs[k])]

\* FileList.__setitem__ with an integer key, lines 445-448; a negative key
\* counts from the end of the list, as list.__setitem__ takes it.
SetItemAppend(l, key, f) ==
    IF key >= Len(l) THEN Append(l, Join(FlParent, f))
    ELSE [l EXCEPT ![IF key >= 0 THEN key + 1 ELSE Len(l) + key + 1] =
              Join(FlParent, f)]

SetItem(l, key, f) ==
    LET expanded ==
            IF key >= Len(l)
            THEN l \o [k \in 1 .. (key - Len(l) + 1) |-> Join(FlParent, Rel(<<>>))]
            ELSE l
    IN  [expanded EXCEPT ![IF key >= 0 THEN key + 1 ELSE Len(l) + key + 1] =
            Join(FlParent, f)]

\* list.__setitem__ with the slice lo:hi
SetSlice(l, lo, hi, ps) == SubSeq(l, 1, lo) \o ps \o SubSeq(l, hi + 1, Len(l))

\* What an operation returned: nothing, or a FileList (parent and elements).
NoRet == [parent |-> Rel(<<>>), items |-> <<>>]

FlOp(op, key, f, err) ==
    [op |-> op, key |-> key, stop |-> 0, oldlen |-> Len(fl), name |-> f,
     err |-> err, ret |-> NoRet]

\* FileList(parent), lines 379-389
InitFl ==
    /\ fl = <<>>
    /\ fllast = [op |-> "init", key |-> 0, stop |-> 0, oldlen |-> 0,
                 name |-> Rel(<<>>), err |-> "none", ret |-> NoRet]
    /\ DLIdle
    /\ TileIdle
    /\ KeyIdle
    /\ WmsIdle
    /\ CliIdle
    /\ RaceIdle
    /\ FlwIdle
    /\ AoiIdle
    /\ FetchIdle

\* FileList.append, lines 391-393
FlAppend(f) ==
    /\ Len(fl) < MaxLen
    /\ fl' = Append(fl, Join(FlParent, f))
    /\ fllast' = FlOp("append", 0, Rel(<<>>), "none")
    /\ UNCHANGED restFl

\* FileList.extend, lines 395-397
FlExtend(fs) ==
    /\ Len(fl) + Len(fs) <= MaxLen
    /\ fl' = fl \o JoinAll(FlParent, fs)
    /\ fllast' = FlOp("extend", 0, Rel(<<>>), "none")
    /\ UNCHANGED restFl

\* fl[key] = f with an integer key, lines 445-448: list.__setitem__ raises
\* IndexError for a negative key before the start of the list.
FlSetItem(key, f) ==
    /\ key < MaxLen
    /\ IF key < 0 /\ Len(fl) + key < 0
       THEN /\ fl' = fl
            /\ fllast' = FlOp("setitem", key, f, "IndexError")
       ELSE /\ fl' = SetItem(fl, key, f)
            /\ fllast' = FlOp("setitem", key, f, "none")
    /\ UNCHANGED restFl

\* fl[lo:hi] = fs, lines 443-444
FlSetSlice(lo, hi, fs) ==
    /\ lo <= hi /\ hi <= Len(fl)
    /\ Len(fl) - (hi - lo) + Len(fs) <= MaxLen
    /\ fl' = SetSlice(fl, lo, hi, JoinAll(FlParent, fs))
    /\ fllast' = FlOp("setslice", 0, Rel(<<>>), "none")
    /\ UNCHANGED restFl

\* fl[key] = f with a key that is neither an integer nor a slice, lines
\* 449-450
FlSetOther ==
    /\ fl' = fl
    /\ fllast' = FlOp("setitem", 0, Rel(<<>>), "TypeError")
    /\ UNCHANGED restFl

\* fl[lo:hi], lines 427-430: FileList(self.parent, <the sliced list>) calls
\* FileList.__init__(self, parent) with one argument too many, which raises
\* TypeError before any FileList is returned.
GetSlice(l, lo, hi) ==
    [err |-> "TypeError", ret |-> NoRet]

FlGetSlice(lo, hi) ==
    /\ lo <= hi /\ hi <= Len(fl)
    /\ fl' = fl
    /\ fllast' = [FlOp("getslice", lo, Rel(<<>>), GetSlice(fl, lo, hi).err)
                    EXCEPT !.stop = hi, !.ret = GetSlice(fl, lo, hi).ret]
    /\ UNCHANGED restFl

NextFl ==
    \/ \E f \in FlNames : FlAppend(f)
    \/ \E fs \in FlBatches : FlExtend(fs)
    \/ \E key \in -1 .. (MaxLen - 1), f \in FlNames : FlSetItem(key, f)
    \/ \E lo, hi \in 0 .. MaxLen, fs \in FlBatches : FlSetSlice(lo, hi, fs)
    \/ \E lo, hi \in 0 .. MaxLen : FlGetSlice(lo, hi)
    \/ FlSetOther

SpecFl == InitFl /\ [][NextFl]_vars

\* The path lies in the directory, or is the directory: it starts with the
\* components of the directory and does not step out of it.
Within(dir, p) ==
    /\ p.abs = dir.abs
    /\ Len(p.parts) >= Len(dir.parts)
    /\ SubSeq(p.parts, 1, Len(dir.parts)) = dir.parts
    /\ \A k \in (Len(dir.parts) + 1) .. Len(p.parts) : p.parts[k] /= ".."

\* C29: after any appends, extends and index or slice assignments, every
\* element of the list is a path inside the parent directory of the list.
C29_ElementsInsideParent == \A k \in DOMAIN fl : Within(FlParent, fl[k])

\* C30: fl[i] = name with i >= len(fl) makes the list i + 1 long with
\* parent/name at i and leaves the elements below the old length as they
\* were; with 0 <= i < len(fl) it replaces element i and nothing else.
C30_IndexAssignment ==
    [][(fllast'.op = "setitem" /\ fllast'.err = "none" /\ fllast'.key >= 0) =>
          LET i == fllast'.key
          IN  /\ Len(fl') = IF i >= Len(fl) THEN i + 1 ELSE Len(fl)
              /\ fl'[i + 1] = Join(FlParent, fllast'.name)
              /\ \A k \in 1 .. Len(fl) : k /= i + 1 => fl'[k] = fl[k]]_vars

\* An assignment past the end of a list that was not empty: the list grew
\* by more than one element.
C30_Witness ==
    /\ fllast.op = "setitem" /\ fllast.err = "none"
    /\ fllast.oldlen >= 1 /\ fllast.key > fllast.oldlen
    /\ Len(fl) = fllast.key + 1
    /\ fl[fllast.key + 1] = Join(FlParent, fllast.name)
    /\ fllast.name = Rel(<<"a">>)

\* An assignment inside the list: the length is the old one.
C30_WitnessReplace ==
    /\ fllast.op = "setitem" /\ fllast.err = "none"
    /\ fllast.key >= 0 /\ fllast.key < fllast.oldlen
    /\ Len(fl) = fllast.oldlen /\ Len(fl) >= 2
    /\ fl[fllast.key + 1] = Join(FlParent, fllast.name)

\* C31: fl[lo:hi] returns a FileList with the parent of fl whose elements
\* are the elements lo .. hi - 1 of fl, and leaves fl as it was.
C31_SliceRetrieved ==
    [][fllast'.op = "getslice" =>
          /\ fllast'.err = "none"
          /\ fllast'.ret.parent = FlParent
          /\ fllast'.ret.items = SubSeq(fl, fllast'.key + 1, fllast'.stop)
          /\ fl' = fl]_vars


(***************************************************************************)
(* AOI and get_aoi (src/src/hysetter/hysetter.py, lines 134-168, and        *)
(* src/src/hysetter/aoi.py, lines 37-87 and 170-245): the aoi section of a  *)
(* configuration is validated, then get_aoi is called once on it.          *)
(*                                                                         *)
(* An option of the section is absent ("none"), present with a falsy value *)
(* ("falsy": an empty list, 0, an empty string) or present with a truthy   *)
(* value ("given").  An attribute list is identified by the option it was  *)
(* read from.  What get_aoi stores is a set of records: the service that   *)
(* was asked, the attribute list it was asked for, and the directory and   *)
(* the file name the answer went to.  The remote services answer or fail;  *)
(* the directories of the attributes are empty before the call.            *)
(***************************************************************************)
AoiConfigs ==
    [aoi : [Selectors -> SelectorValues], mainstem_tributaries : SelectorValues,
     nhdv2_flowlines : BOOLEAN, streamcat_attrs : BOOLEAN, nldi_attrs : BOOLEAN,
     cached : BOOLEAN]

\* aoi_cfg.streamcat_attrs and aoi_cfg.nldi_attrs: a non-empty list, or None
StreamcatAttrs(c) == IF c.streamcat_attrs THEN "streamcat_attrs" ELSE "None"
NldiAttrs(c) == IF c.nldi_attrs THEN "nldi_attrs" ELSE "None"

Stored(svc, attrs, dir, file) ==
    [service |-> svc, attrs |-> attrs, dir |-> dir, file |-> file]

\* _get_mainstem with the parameters taken by position, as the code has them
GetMainstem(get_flw, flw_dir, sc_attrs, sc_dir, nldi_attrs, nldi_dir) ==
    (IF get_flw
     THEN {Stored("WaterData", "None", flw_dir, "flowlines.parquet")} ELSE {})
    \cup (IF sc_attrs /= "None"
          THEN {Stored("StreamCat", sc_attrs, sc_dir, "streamcat_attrs.parquet")}
          ELSE {})
    \cup (IF nldi_attrs /= "None"
          THEN {Stored("NLDI", nldi_attrs, nldi_dir, "nldi_attrs.parquet")}
          ELSE {})

\* get_aoi, lines 197-206 and 214-223: the call of _get_mainstem
GetMainstemCall(c) ==
    GetMainstem(c.nhdv2_flowlines, "nhdv2_flowlines",
                NldiAttrs(c), "nldi_attrs", StreamcatAttrs(c), "streamcat_attrs")

\* _get_flowlines on an area of one geometry
GetFlowlinesStored(flw_dir, sc_attrs, sc_dir, nldi_attrs, nldi_dir) ==
    {Stored("WaterData", "None", flw_dir, "aoi_geom_0.parquet")}
    \cup (IF sc_attrs /= "None"
          THEN {Stored("StreamCat", sc_attrs, sc_dir, "streamcat_geom_0.parquet")}
          ELSE {})
    \cup (IF nldi_attrs /= "None"
          THEN {Stored("NLDI", nldi_attrs, nldi_dir, "nldi_geom_0.parquet")}
          ELSE {})

\* get_aoi, lines 236-245
GetFlowlinesCall(c) ==
    IF c.nhdv2_flowlines \/ c.streamcat_attrs \/ c.nldi_attrs
    THEN GetFlowlinesStored("nhdv2_flowlines", StreamcatAttrs(c), "streamcat_attrs",
                            NldiAttrs(c), "nldi_attrs")
    ELSE {}

\* get_aoi, lines 177-230: the branch of the if/elif chain that is taken
AoiBranch(c) ==
    IF c.cached THEN "aoi_parquet"
    ELSE IF c.aoi["huc_ids"] = "given" THEN "huc_ids"
    ELSE IF c.aoi["nhdv2_ids"] = "given" THEN "nhdv2_ids"
    ELSE IF c.aoi["gagesii_basins"] = "given" THEN "gagesii_basins"
    ELSE IF c.aoi["mainstem_main"] = "given" THEN "mainstem_main"
    ELSE IF c.mainstem_tributaries = "given" THEN "mainstem_tributaries"
    ELSE IF c.aoi["geometry_file"] = "given" THEN "geometry_file"
    ELSE "none"

MainstemBranches == {"mainstem_main", "mainstem_tributaries"}

Navigation(branch) ==
    IF branch = "mainstem_main" THEN "upstreamMain"
    ELSE IF branch = "mainstem_tributaries" THEN "upstreamTributaries"
    ELSE "None"

NoAoiOut ==
    [branch |-> "None", navigation |-> "None", stored |-> {}, wrote |-> FALSE,
     err |-> "none", printed |-> FALSE]

InitAoi ==
    /\ aconf \in AoiConfigs
    /\ aout = NoAoiOut
    /\ apc = "ready"
    /\ DLIdle
    /\ TileIdle
    /\ KeyIdle
    /\ WmsIdle
    /\ CliIdle
    /\ RaceIdle
    /\ FlwIdle
    /\ FlIdle
    /\ FetchIdle

\* AOI._check_exclusive_options, lines 144-168
AoiValidate ==
    /\ apc = "ready"
    /\ apc' = IF AoiAccepted(aconf.aoi) THEN "validated" ELSE "rejected"
    /\ UNCHANGED <<restAoi, aconf, aout>>

\* get_aoi, lines 170-245; ok: the remote services answered
GetAoiCall(ok) ==
    /\ apc = "validated"
    /\ apc' = "done"
    /\ LET b == AoiBranch(aconf)
       IN  aout' =
             IF b \in MainstemBranches
             THEN [branch |-> b, navigation |-> Navigation(b),
                   stored |-> IF ok THEN GetMainstemCall(aconf) ELSE {},
                   wrote |-> FALSE, err |-> "none", printed |-> ~ok]
             ELSE IF b = "none"
             THEN [NoAoiOut EXCEPT !.branch = b, !.err = "ValueError"]
             ELSE IF b /= "aoi_parquet" /\ ~ok
             THEN [NoAoiOut EXCEPT !.branch = b, !.err = "Exception"]
             ELSE [branch |-> b, navigation |-> "None",
                   stored |-> IF ok THEN GetFlowlinesCall(aconf) ELSE {},
                   wrote |-> b /= "aoi_parquet", err |-> "none", printed |-> ~ok]
    /\ UNCHANGED <<restAoi, aconf>>

NextAoi ==
    \/ AoiValidate
    \/ \E ok \in BOOLEAN : GetAoiCall(ok)

SpecAoi == InitAoi /\ [][NextAoi]_vars

\* The only selector of the configuration with a value is mainstem_tributaries.
OnlyTributaries ==
    /\ aconf.mainstem_tributaries = "given"
    /\ \A q \in Selectors : aconf.aoi[q] = "none"

\* C32: a configuration whose area of interest is given by
\* mainstem_tributaries is accepted by the validation, and get_aoi then
\* navigates that mainstem with upstreamTributaries.
C32_TributariesAccepted ==
    OnlyTributaries =>
        /\ apc /= "rejected"
        /\ apc = "done" => aout.navigation = "upstreamTributaries"

\* C39: for a mainstem area of interest, what get_aoi stores for the
\* attributes pairs each list with its own service and its own directory:
\* the list of streamcat_attrs is asked of StreamCat and goes under
\* streamcat_attrs, the list of nldi_attrs is asked of NLDI and goes under
\* nldi_attrs, and a list that is given is retrieved.
C39_MainstemAttrsPaired ==
    (apc = "done" /\ aout.branch \in MainstemBranches /\ ~aout.printed) =>
        /\ \A s \in aout.stored :
              /\ s.service = "StreamCat" =>
                    s.attrs = "streamcat_attrs" /\ s.dir = "streamcat_attrs"
              /\ s.service = "NLDI" =>
                    s.attrs = "nldi_attrs" /\ s.dir = "nldi_attrs"
        /\ aconf.streamcat_attrs =>
              \E s \in aout.stored : s.service = "StreamCat"
        /\ aconf.nldi_attrs => \E s \in aout.stored : s.service = "NLDI"


(***************************************************************************)
(* The loop over the geometries of the area of interest in get_forcing     *)
(* (forcing.py, lines 52-72), get_nid (nid.py, lines 39-57), get_rasters   *)
(* (rasters.py, lines 33-51, for one raster) and get_streamflow without    *)
(* use_col (nwis.py, lines 52-76).                                         *)
(*                                                                         *)
(* The output file of geometry i is missing ("none"), there from before    *)
(* the call ("old") or written by the call ("new").  The data request of   *)
(* geometry i is the call that takes geom: get_clm, nid.get_bygeom,        *)
(* open_rasterio(url)...clip, nwis.get_info.  It answers with data, with   *)
(* nothing (NWIS alone) or with an exception the loop catches.  get_nid    *)
(* stages the national inventory in the first pass of the loop, before it  *)
(* looks at the file of geometry 0; that request is for no geometry, and   *)
(* an exception of it leaves get_nid.  The list of the paths is recorded   *)
(* with FileList.__setitem__, its directory standing for the directory of  *)
(* the fetcher.                                                            *)
(***************************************************************************)
Fetchers == {"forcing", "nid", "rasters", "streamflow"}

FetchInputs ==
    UNION { [kind : Fetchers, ngeom : {n}, had : SUBSET (0 .. (n - 1))] :
              n \in 0 .. MaxGeoms }

\* f"{source}_geom_{i}.nc", f"nid_geom_{i}.parquet", f"{name}_geom_{i}.tif",
\* f"streamflow_{start}_{end}_geom_{i}.nc"
GeomName(kind, i) == Rel(<<kind \o "_geom_" \o ToString(i)>>)

\* paths[i].exists()
OutputExistsNever(fs, i) == FALSE

OutputExists(fs, i) == fs[i] /= "none"

\* What the data request of a fetcher can answer.
Answers(kind) ==
    IF kind = "streamflow" THEN {"data", "empty", "raises"} ELSE {"data", "raises"}

\* The loop goes to the next geometry, or ends.
NextGeom(i) == IF i + 1 < gin.ngeom THEN "top" ELSE "returned"

InitFetch ==
    /\ gin \in FetchInputs
    /\ gst = [i |-> 0,
              files |-> [i \in 0 .. (gin.ngeom - 1) |->
                            IF i \in gin.had THEN "old" ELSE "none"],
              paths |-> <<>>, requested |-> {}, staged |-> FALSE, reported |-> {}]
    /\ gpc = "ready"
    /\ DLIdle
    /\ TileIdle
    /\ KeyIdle
    /\ WmsIdle
    /\ CliIdle
    /\ RaceIdle
    /\ FlwIdle
    /\ FlIdle
    /\ AoiIdle

\* The for statement: an area without geometries ends the fetcher.
FetchStart ==
    /\ gpc = "ready"
    /\ gpc' = IF gin.ngeom = 0 THEN "returned" ELSE "top"
    /\ UNCHANGED <<restFetch, gin, gst>>

\* nid.py lines 46-48: NID() and stage_nid_inventory in the first pass.
FetchStage(ok) ==
    /\ gpc = "top"
    /\ gin.kind = "nid"
    /\ ~gst.staged
    /\ gst' = [gst EXCEPT !.staged = TRUE]
    /\ gpc' = IF ok THEN "top" ELSE "raised"
    /\ UNCHANGED <<restFetch, gin>>

\* forcing.py line 58, nid.py line 49, rasters.py line 39, nwis.py line 58:
\* paths[i] = name
FetchRecord ==
    /\ gpc = "top"
    /\ gin.kind = "nid" => gst.staged
    /\ gst' = [gst EXCEPT !.paths = SetItem(@, gst.i, GeomName(gin.kind, gst.i))]
    /\ gpc' = "check"
    /\ UNCHANGED <<restFetch, gin>>

\* forcing.py lines 59-60 and alike: if paths[i].exists(): continue
FetchCheck ==
    /\ gpc = "check"
    /\ IF OutputExists(gst.files, gst.i)
       THEN /\ gst' = [gst EXCEPT !.i = @ + 1]
            /\ gpc' = NextGeom(gst.i)
       ELSE /\ gpc' = "fetch"
            /\ UNCHANGED gst
    /\ UNCHANGED <<restFetch, gin>>

\* forcing.py lines 61-72 and alike: the try block with the data request
\* and the write of the file, and its except clause.
FetchData(answer) ==
    /\ gpc = "fetch"
    /\ gst' = [gst EXCEPT
                 !.requested = @ \cup {gst.i},
                 !.files = IF answer = "data" THEN [@ EXCEPT ![gst.i] = "new"] ELSE @,
                 !.reported = IF answer = "data" THEN @ ELSE @ \cup {gst.i},
                 !.i = @ + 1]
    /\ gpc' = NextGeom(gst.i)
    /\ UNCHANGED <<restFetch, gin>>

NextFetch ==
    \/ FetchStart
    \/ \E ok \in BOOLEAN : FetchStage(ok)
    \/ FetchRecord
    \/ FetchCheck
    \/ \E answer \in Answers(gin.kind) : FetchData(answer)

SpecFetch == InitFetch /\ [][NextFetch]_vars

\* C37: in every per-geometry fetcher, when the output file of geometry i
\* is there before the call, no data request is made for geometry i and the
\* file stays as it was, and once the loop is past geometry i the path of
\* the file is at index i of the list of the fetcher.
C37_ExistingOutputSkipped ==
    \A i \in gin.had :
        /\ i \notin gst.requested
        /\ gst.files[i] = "old"
        /\ gst.i > i =>
              /\ Len(gst.paths) > i
              /\ gst.paths[i + 1] = Join(FlParent, GeomName(gin.kind, i))

\* The fetcher returned after it skipped the geometry whose file was there
\* and requested and wrote the other one.
C37_Witness ==
    /\ gpc = "returned"
    /\ gin.ngeom = 2 /\ gin.had = {1}
    /\ gst.requested = {0} /\ gst.files[0] = "new"
    /\ Len(gst.paths) = 2

=============================================================================
